---- MODULE Spec2Model ----
(***************************************************************************)
(* Change-capture-to-vector-store pipeline of entrenai:                    *)
(*   MongoDB  -> MonitorCambiosMongoDB (change stream or polling)          *)
(*            -> ConectorRabbitMQ (durable queue)                          *)
(*            -> ProcesadorIntegrado.callback_procesamiento (ack / nack)   *)
(*            -> ConectorQdrant (points).                                  *)
(***************************************************************************)
EXTENDS Integers, Sequences, FiniteSets, TLC

----------------------------------------------------------------------------
(* Bounds of the model *)

MaxIds == 2          \* document ids per collection
MaxMutaciones == 2   \* store mutations in a behaviour
MaxCola == 2         \* messages held by the queue
MaxFallas == 1       \* collections whose scan raises in one pass
MaxChunks == 2       \* chunk positions that can fail in one delivery
MaxEntregas == 2     \* deliveries of one message the model follows
MaxHistorial == 3    \* deliveries in a behaviour
MaxAbandonadas == 2  \* connections left open without a reference
MaxReinicios == 6    \* failed restarts in a row that are followed
MaxHilos == 2        \* worker threads ever started on one monitor
MaxReloj == 3        \* clock steps in a behaviour
MaxTrabajadores == 2 \* callers of the vector store at work at the same time
MaxMensajes == 2     \* messages a flow takes through its stages
PasoReloj == 15      \* seconds per clock step

(* Program constants *)

HEARTBEAT_MAX == 30          \* cdc_mongodb.py:156
TAM_TRUNK == 512             \* utils.py:169
MAX_INTENTOS == 5            \* servicio_cdc.py:71
limite_tam_texto == 8192     \* flujo_bytewax.py:69
dimension_embeddings == 384  \* conector_qdrant.py:82
SOLAPAMIENTO == 50           \* utils.py:169

----------------------------------------------------------------------------
(* Data *)

Ids == 1..MaxIds

\* colecciones=[...] handed to crear_monitor_cdc, in list order
ColeccionesMonitoreadas == <<"cursos", "recursos">>

Colecciones == {ColeccionesMonitoreadas[k] : k \in 1..Len(ColeccionesMonitoreadas)}

\* the operations a monitor built without filtro_operaciones watches
OPERACIONES == {"insert", "update", "delete", "replace"}

\* A text is the sequence of the lengths of its sentences (each <= tam_trunk).
\* BSON keeps the numeric type of a field: int32 2 and double 2.0 differ.

\* the documents the clients of the store write
DocsAlmacen == {[texto |-> <<300>>, id_curso |-> <<"int", 2>>],
                [texto |-> <<300>>, id_curso |-> <<"double", 2>>],
                [texto |-> <<400, 200>>, id_curso |-> <<"int", 2>>]}

FcnVacia == [x \in {} |-> 0]

Quitar(f, k) == [x \in (DOMAIN f) \ {k} |-> f[x]]

Poner(f, k, v) == [x \in (DOMAIN f) \cup {k} |-> IF x = k THEN v ELSE f[x]]

RECURSIVE Ordenados(_)
Ordenados(S) ==
  IF S = {} THEN << >>
  ELSE LET m == CHOOSE x \in S : \A y \in S : x <= y
       IN <<m>> \o Ordenados(S \ {m})

\* <<operation, collection, document id>> of each change of a sequence
Pares(s) == {<<s[k].operationType, s[k].coll, s[k].id[2]>> : k \in 1..Len(s)}

----------------------------------------------------------------------------
VARIABLES
  almacen,            \* MongoDB: [coleccion -> [id -> documento]]
  flujo_cambios,      \* the mutations applied to the store, in order (change feed)
  replica_set,        \* TRUE iff the server offers change streams
  mutaciones,         \* number of mutations applied so far
  ultimo_estado,      \* self.ultimo_estado: [coleccion -> [id -> normalized doc]]
  ejecutando,         \* self.ejecutando
  hilo_monitor,       \* self.hilo_monitor: 0 is None, else an index of hilos
  ultimo_heartbeat,   \* self.ultimo_heartbeat
  hilos,              \* the worker threads started so far: [modo, cursor], cursor
                      \* the position in the feed the worker has observed up to
  reloj,              \* time.time(), in seconds
  pasos_reloj,        \* clock steps taken
  conexion_abierta,   \* ConectorRabbitMQ: conexion and canal are open
  cola,               \* the durable queue: sequence of [cuerpo, entregas]
  emitidos,           \* <<operation, collection, id>> of the changes handed to
                      \* _enviar_cambio_a_rabbitmq so far
  ultimo_tick,        \* the changes the last polling tick emitted, in order
  puntos,             \* Qdrant: [<<collection, point id>> -> payload]
  colecciones_qdrant, \* Qdrant: the collections the server holds, with their size
  colecciones_existentes,  \* ConectorQdrant.colecciones_existentes
  colecciones_creadas,     \* ProcesadorIntegrado.colecciones_creadas
  mensajes_cdc_procesados, \* ProcesadorIntegrado.mensajes_cdc_procesados
  historial,          \* the deliveries the consumer has answered, in order:
                      \* [cuerpo, resultado, respuesta]
  colecciones,        \* self.colecciones of the monitor: << >> is None
  pc_servicio,        \* where ServicioCDC.iniciar() is
  terminando,         \* ServicioCDC.terminando
  intentos,           \* the local intentos of ServicioCDC.iniciar()
  reinicios_fallidos, \* restarts in a row whose monitor.iniciar() returned False
  conector,           \* the ConectorRabbitMQ of the process and its connections
  llamada,            \* the last call of publicar_mensaje: what it returned, how
                      \* many connections it tried to open
  ultima_llamada,     \* the last call made to ConectorQdrant and what it returned
  ultimos_trunks,     \* the last call made to dividir_en_trunks with parameters
                      \* of its own: [texto, tam_trunk, solapamiento, trunks]
  filtro_operaciones, \* self.filtro_operaciones of the monitor
  procesador,         \* ProcesadorIntegrado: [monitor_cdc, consumidor, pc, paradas]
  flujo,              \* FlujoProcesamientoArchivos: its flag, thread and counters,
                      \* what detener() returned, what the chunk stage and the
                      \* last stage emitted for the last message, and what
                      \* ChunkingDispatcher returned last
  trabajadores        \* the callers of ConectorQdrant at work: [pc, nombre, retorno]

vars_monitor == <<almacen, flujo_cambios, replica_set, mutaciones, ultimo_estado,
                  ejecutando, hilo_monitor, ultimo_heartbeat, hilos, reloj,
                  pasos_reloj, conexion_abierta, cola,
                  emitidos, ultimo_tick>>

vars_consumidor == <<puntos, colecciones_qdrant, colecciones_existentes,
                     colecciones_creadas, mensajes_cdc_procesados, historial>>

vars_servicio == <<colecciones, pc_servicio, terminando, intentos, reinicios_fallidos>>

vars_broker == <<conector, llamada>>

vars_qdrant == <<ultima_llamada, ultimos_trunks>>

vars_procesador == <<filtro_operaciones, procesador, flujo, trabajadores>>

vars == <<vars_monitor, vars_consumidor, vars_servicio, vars_broker, vars_procesador, vars_qdrant>>

----------------------------------------------------------------------------
(* MonitorCambiosMongoDB: pure helpers *)

\* str(doc.get("_id")): ObjectIds are generated by the server (insert_one without
\* _id), so the string form identifies the document.
IdStr(i) == <<"str", i>>

\* json.loads(json_util.dumps(doc)) compared with Python's != : the numeric type
\* is not part of the comparison (2 == 2.0).
normalizar_documento(doc) == [texto |-> doc.texto, id_curso |-> doc.id_curso[2]]

Cambio(op, c, idrep, d) ==
  [operationType |-> op, coll |-> c, id |-> idrep, fullDocument |-> d]

\* json.dumps / json.loads: a body is either the encoding of a message or
\* bytes that do not parse
json_dumps(mensaje) == <<"json", mensaje>>

NO_JSON == <<"bytes">>

es_json(cuerpo) == cuerpo[1] = "json"

json_loads(cuerpo) == cuerpo[2]

\* basic_publish: the body enters the queue, not yet delivered
Mensaje(mensaje) == [cuerpo |-> json_dumps(mensaje), entregas |-> 0]

\* _enviar_cambio_a_rabbitmq applied to a sequence of changes, in order; broker
\* is the outcome of publicar_mensaje (TRUE iff the broker took the message)
RECURSIVE enviar_cambios(_, _, _)
enviar_cambios(q, cambios, broker) ==
  IF cambios = << >> THEN q
  ELSE enviar_cambios(IF broker THEN Append(q, Mensaje(Head(cambios))) ELSE q,
                      Tail(cambios), broker)

\* the first n documents a scan of coleccion c yields, and what the loop emits
RECURSIVE eventos_escaneo(_, _, _, _)
eventos_escaneo(c, ids, n, previo) ==
  IF n = 0 \/ ids = << >> THEN << >>
  ELSE LET i == Head(ids)
           doc == almacen[c][i]
           doc_copia == normalizar_documento(doc)
           ev == IF i \notin DOMAIN previo
                 THEN <<Cambio("insert", c, IdStr(i), <<doc>>)>>
                 ELSE IF doc_copia # previo[i]
                      THEN <<Cambio("update", c, IdStr(i), <<doc>>)>>
                      ELSE << >>
       IN ev \o eventos_escaneo(c, Tail(ids), n - 1, previo)

\* a loop over the previous keys that reports nothing
eventos_eliminados_omitidos(c, claves, actuales) == << >>

\* lines 308-318: the previous keys missing from the scan
RECURSIVE eventos_eliminados(_, _, _)
eventos_eliminados(c, claves, actuales) ==
  IF claves = << >> THEN << >>
  ELSE (IF Head(claves) \notin DOMAIN actuales
        THEN <<Cambio("delete", c, IdStr(Head(claves)), << >>)>>
        ELSE << >>) \o eventos_eliminados(c, Tail(claves), actuales)

documentos_actuales(c) == [i \in DOMAIN almacen[c] |-> normalizar_documento(almacen[c][i])]

\* a loop body whose check of the previous keys also runs when the scan has
\* raised, against the documents read so far
eventos_coleccion_sin_completar(c, falla, previo) ==
  LET ids == Ordenados(DOMAIN almacen[c])
      leidos == IF falla >= 0 /\ falla < Len(ids) THEN falla ELSE Len(ids)
      parcial == [i \in {ids[j] : j \in 1..leidos} |->
                    normalizar_documento(almacen[c][i])]
  IN eventos_escaneo(c, ids, leidos, previo)
     \o eventos_eliminados(c, Ordenados(DOMAIN previo), parcial)

\* One pass of the loop body over coleccion c. falla = -1: the scan completes;
\* falla = k >= 0: find() raises after yielding k documents.
eventos_coleccion(c, falla, previo) ==
  LET ids == Ordenados(DOMAIN almacen[c])
  IN IF falla >= 0
     THEN eventos_escaneo(c, ids, falla, previo)
     ELSE eventos_escaneo(c, ids, Len(ids), previo)
          \o eventos_eliminados(c, Ordenados(DOMAIN previo), documentos_actuales(c))

estado_tras_coleccion(c, falla, previo) ==
  IF falla >= 0 THEN previo ELSE documentos_actuales(c)

RECURSIVE eventos_tick(_, _, _)
eventos_tick(cols, fallas, estado) ==
  IF cols = << >> THEN << >>
  ELSE eventos_coleccion(Head(cols), fallas[Head(cols)], estado[Head(cols)])
       \o eventos_tick(Tail(cols), fallas, estado)

Fallas ==
  {f \in [Colecciones -> -1..MaxIds] :
     Cardinality({c \in Colecciones : f[c] >= 0}) <= MaxFallas}

FallaPosible(f) == \A c \in Colecciones : f[c] <= Cardinality(DOMAIN almacen[c])

hilo_vivo(h) == h # 0 /\ hilos[h].modo # "terminado"

\* MonitorCambiosMongoDB.esta_ejecutando
\* a health check that looks at the thread and the flag only
esta_ejecutando_sin_latido ==
  IF ~hilo_vivo(hilo_monitor) THEN FALSE ELSE ejecutando

esta_ejecutando ==
  IF ~hilo_vivo(hilo_monitor) THEN FALSE
  ELSE IF reloj - ultimo_heartbeat > HEARTBEAT_MAX THEN FALSE
  ELSE ejecutando

----------------------------------------------------------------------------
\* ConectorRabbitMQ before its first construction
SinConector ==
  [inicializado |-> FALSE, conexion |-> "None", canal |-> "None", abandonadas |-> 0]

\* no call made to ConectorQdrant yet
SinLlamada ==
  [operacion |-> "ninguna", nombre |-> << >>, dimension |-> 0, conectado |-> FALSE, exito |-> FALSE]

\* dividir_en_trunks not called yet
SinTrunks == [texto |-> << >>, tam_trunk |-> 0, solapamiento |-> 0, trunks |-> << >>]

\* ProcesadorIntegrado after __init__: no monitor, no consumer channel
SinProcesador ==
  [monitor_cdc |-> FALSE, consumidor |-> "None", pc |-> "inactivo", paradas |-> << >>]

\* FlujoProcesamientoArchivos after __init__
SinFlujo ==
  [ejecutando |-> FALSE, hilo |-> "None", retorno |-> "ninguno",
   mensajes_procesados |-> 0, embeddings_generados |-> 0, errores |-> 0,
   chunks |-> << >>, salida |-> << >>, trunks |-> << >>]

\* a caller of the vector store between two calls
TrabajadorLibre == [pc |-> "libre", nombre |-> << >>, retorno |-> "ninguno"]

Init ==
  /\ almacen \in {[c \in Colecciones |-> FcnVacia],
                  [c \in Colecciones |->
                     IF c = "recursos"
                     THEN (1 :> [texto |-> <<300>>, id_curso |-> <<"int", 2>>])
                     ELSE FcnVacia]}
  /\ flujo_cambios = << >>
  /\ replica_set \in BOOLEAN
  /\ mutaciones = 0
  /\ ultimo_estado = FcnVacia
  /\ ejecutando = FALSE
  /\ hilo_monitor = 0
  /\ ultimo_heartbeat = 0
  /\ hilos = << >>
  /\ reloj = 0
  /\ pasos_reloj = 0
  /\ conexion_abierta = FALSE
  /\ cola = << >>
  /\ emitidos = {}
  /\ ultimo_tick = << >>
  /\ puntos = FcnVacia
  /\ colecciones_qdrant = FcnVacia
  /\ colecciones_existentes = {}
  /\ colecciones_creadas = {}
  /\ mensajes_cdc_procesados = 0
  /\ historial = << >>
  /\ colecciones \in {ColeccionesMonitoreadas, << >>}
  /\ pc_servicio = "inactivo"
  /\ terminando = FALSE
  /\ intentos = 0
  /\ reinicios_fallidos = 0
  /\ conector = SinConector
  /\ llamada = [retorno |-> "ninguno", intentos |-> 0]
  /\ ultima_llamada = SinLlamada
  /\ ultimos_trunks = SinTrunks
  /\ filtro_operaciones = OPERACIONES
  /\ procesador = SinProcesador
  /\ flujo = SinFlujo
  /\ trabajadores = [w \in 1..MaxTrabajadores |-> TrabajadorLibre]

----------------------------------------------------------------------------
(* The store and its clients (ConectorMongoDB) *)

vars_no_almacen == <<vars_procesador, vars_qdrant, vars_broker, vars_servicio, vars_consumidor, replica_set, ultimo_estado, ejecutando, hilo_monitor,
                     ultimo_heartbeat, hilos, reloj, pasos_reloj,
                     conexion_abierta, cola, emitidos, ultimo_tick>>

Mutar(c, i, op, nuevo) ==
  /\ mutaciones < MaxMutaciones
  /\ mutaciones' = mutaciones + 1
  /\ almacen' = [almacen EXCEPT ![c] = nuevo]
  /\ flujo_cambios' = Append(flujo_cambios,
        Cambio(op, c, <<"oid", i>>, IF i \in DOMAIN nuevo THEN <<nuevo[i]>> ELSE << >>))
  /\ UNCHANGED vars_no_almacen

\* insert_one
guardar(c, i, d) ==
  /\ i \notin DOMAIN almacen[c]
  /\ Mutar(c, i, "insert", Poner(almacen[c], i, d))

\* update_one with $set: a write that changes nothing is no mutation
actualizar(c, i, d) ==
  /\ i \in DOMAIN almacen[c]
  /\ d # almacen[c][i]
  /\ Mutar(c, i, "update", Poner(almacen[c], i, d))

\* delete_one
eliminar(c, i) ==
  /\ i \in DOMAIN almacen[c]
  /\ Mutar(c, i, "delete", Quitar(almacen[c], i))

----------------------------------------------------------------------------
(* MonitorCambiosMongoDB *)

\* iniciar(): mongo_ok is the outcome of ConectorMongoDB.conectar(), broker that
\* of pika.BlockingConnection() when ConectorRabbitMQ.conectar() has to open one
iniciar(mongo_ok, broker) ==
  /\ Len(hilos) < MaxHilos
  /\ IF ejecutando \/ ~mongo_ok \/ (~conexion_abierta /\ ~broker)
     THEN UNCHANGED vars
     ELSE /\ conexion_abierta' = TRUE
          /\ ejecutando' = TRUE
          /\ ultimo_heartbeat' = reloj
          /\ hilos' = Append(hilos, [modo |-> "arranque", cursor |-> 0])
          /\ hilo_monitor' = Len(hilos) + 1
          /\ UNCHANGED <<vars_procesador, vars_qdrant, vars_broker, vars_servicio, vars_consumidor, almacen, flujo_cambios, replica_set, mutaciones,
                         ultimo_estado, reloj, pasos_reloj, cola, emitidos,
                         ultimo_tick>>

\* detener(): clears the flag; the join is bounded, the worker ends on its own
detener ==
  /\ ejecutando' = FALSE
  /\ UNCHANGED <<vars_procesador, vars_qdrant, vars_broker, vars_servicio, vars_consumidor, almacen, flujo_cambios, replica_set, mutaciones, ultimo_estado,
                 hilo_monitor, ultimo_heartbeat, hilos, reloj, pasos_reloj,
                 conexion_abierta, cola, emitidos, ultimo_tick>>

\* _ejecutar_monitor: coleccion.watch() on colecciones[0] succeeds
abrir_change_stream(h) ==
  /\ hilos[h].modo = "arranque"
  /\ replica_set
  /\ hilos' = [hilos EXCEPT ![h] = [modo |-> "nativo", cursor |-> Len(flujo_cambios)]]
  /\ UNCHANGED <<vars_procesador, vars_qdrant, vars_broker, vars_servicio, vars_consumidor, almacen, flujo_cambios, replica_set, mutaciones, ultimo_estado,
                 ejecutando, hilo_monitor, ultimo_heartbeat, reloj, pasos_reloj,
                 conexion_abierta, cola, emitidos, ultimo_tick>>

\* what the initial load of _monitorear_por_polling leaves for coleccion c when
\* find() raises after k documents (k = -1: it does not raise)
estado_inicial(c, k) ==
  LET ids == Ordenados(DOMAIN almacen[c])
      n == IF k >= 0 THEN k ELSE Len(ids)
  IN [i \in {ids[j] : j \in 1..n} |-> normalizar_documento(almacen[c][i])]

\* _ejecutar_monitor: watch() raised (at open, or while iterating): fall back to
\* _monitorear_por_polling, which first loads the initial state
caer_a_polling(h, f) ==
  /\ \/ hilos[h].modo = "arranque" /\ ~replica_set
     \/ hilos[h].modo = "nativo"
  /\ FallaPosible(f)
  /\ ultimo_estado' = [c \in Colecciones |-> estado_inicial(c, f[c])]
  /\ hilos' = [hilos EXCEPT ![h] = [modo |-> "polling", cursor |-> Len(flujo_cambios)]]
  /\ UNCHANGED <<vars_procesador, vars_qdrant, vars_broker, vars_servicio, vars_consumidor, almacen, flujo_cambios, replica_set, mutaciones, ejecutando,
                 hilo_monitor, ultimo_heartbeat, reloj, pasos_reloj,
                 conexion_abierta, cola, emitidos, ultimo_tick>>

\* _monitorear_por_polling with no collections given: db.list_collection_names()
\* raises before the loop is entered; _ejecutar_monitor logs the error and ends
fallar_listado(h) ==
  /\ \/ hilos[h].modo = "arranque" /\ ~replica_set
     \/ hilos[h].modo = "nativo"
  /\ colecciones = << >>
  /\ hilos' = [hilos EXCEPT ![h].modo = "terminado"]
  /\ ejecutando' = FALSE
  /\ UNCHANGED <<vars_procesador, vars_qdrant, vars_broker, vars_servicio, vars_consumidor, almacen, flujo_cambios, replica_set,
                 mutaciones, ultimo_estado, hilo_monitor, ultimo_heartbeat, reloj,
                 pasos_reloj, conexion_abierta, cola, emitidos, ultimo_tick>>

\* one iteration of the while loop of _monitorear_por_polling
monitorear_por_polling(h, f, broker) ==
  /\ hilos[h].modo = "polling"
  /\ ejecutando
  /\ FallaPosible(f)
  /\ LET evs == eventos_tick(ColeccionesMonitoreadas, f, ultimo_estado)
     IN /\ Len(cola) + Len(evs) <= MaxCola
        /\ evs = << >> => broker
        /\ ultimo_heartbeat' = reloj
        /\ cola' = enviar_cambios(cola, evs, broker)
        /\ emitidos' = emitidos \cup Pares(evs)
        /\ conexion_abierta' = IF evs = << >> THEN conexion_abierta ELSE broker
        /\ ultimo_estado' = [c \in Colecciones |->
                               estado_tras_coleccion(c, f[c], ultimo_estado[c])]
        /\ ultimo_tick' = evs
  /\ UNCHANGED <<vars_procesador, vars_qdrant, vars_broker, vars_servicio, vars_consumidor, almacen, flujo_cambios, replica_set, mutaciones, ejecutando,
                 hilo_monitor, hilos, reloj, pasos_reloj>>

\* a polling loop that is left whatever the stop flag says
terminar_polling_sin_bandera(h) ==
  /\ hilos[h].modo = "polling"
  /\ hilos' = [hilos EXCEPT ![h].modo = "terminado"]
  /\ ejecutando' = FALSE
  /\ UNCHANGED <<vars_procesador, vars_qdrant, vars_broker, vars_servicio, vars_consumidor, almacen, flujo_cambios, replica_set,
                 mutaciones, ultimo_estado, hilo_monitor, ultimo_heartbeat, reloj,
                 pasos_reloj, conexion_abierta, cola, emitidos, ultimo_tick>>

\* the while condition of _monitorear_por_polling is false: the worker returns
\* and the finally clause of _ejecutar_monitor runs
terminar_polling(h) ==
  /\ hilos[h].modo = "polling"
  /\ ~ejecutando
  /\ hilos' = [hilos EXCEPT ![h].modo = "terminado"]
  /\ ejecutando' = FALSE
  /\ UNCHANGED <<vars_procesador, vars_qdrant, vars_broker, vars_servicio, vars_consumidor, almacen, flujo_cambios, replica_set, mutaciones, ultimo_estado,
                 hilo_monitor, ultimo_heartbeat, reloj, pasos_reloj,
                 conexion_abierta, cola, emitidos, ultimo_tick>>

\* the feed watch() delivers: changes of colecciones[0], or of the whole
\* database when no collections were given, that pass the $match
EnFlujoNativo(cambio) ==
  /\ colecciones # << >> => cambio.coll = colecciones[1]
  /\ cambio.operationType \in filtro_operaciones

\* watch(full_document="updateLookup"): the document of an update event is
\* looked up by the server when the event is handed out, and is the document
\* as it is then: changed again, or gone (None)
updateLookup(cambio) ==
  IF cambio.operationType # "update" THEN cambio
  ELSE [cambio EXCEPT !.fullDocument =
          IF cambio.id[2] \in DOMAIN almacen[cambio.coll]
          THEN <<almacen[cambio.coll][cambio.id[2]]>>
          ELSE << >>]

\* _procesar_cambio: the changes it hands to _enviar_cambio_a_rabbitmq
procesar_cambio(cambio) ==
  IF cambio.operationType \notin filtro_operaciones THEN << >> ELSE <<cambio>>

\* _monitorear_coleccion: the stream yields its next change
monitorear_coleccion(h, broker) ==
  /\ hilos[h].modo = "nativo"
  /\ \E j \in (hilos[h].cursor + 1)..Len(flujo_cambios) :
       /\ EnFlujoNativo(flujo_cambios[j])
       /\ \A k \in (hilos[h].cursor + 1)..(j - 1) : ~EnFlujoNativo(flujo_cambios[k])
       /\ ultimo_heartbeat' = reloj
       /\ IF ~ejecutando
          THEN /\ hilos' = [hilos EXCEPT ![h] = [modo |-> "terminado", cursor |-> j]]
               /\ ejecutando' = FALSE
               /\ UNCHANGED <<cola, emitidos, conexion_abierta>>
          ELSE LET evs == procesar_cambio(updateLookup(flujo_cambios[j]))
               IN /\ Len(cola) + Len(evs) <= MaxCola
                  /\ evs = << >> => broker
                  /\ hilos' = [hilos EXCEPT ![h].cursor = j]
                  /\ cola' = enviar_cambios(cola, evs, broker)
                  /\ emitidos' = emitidos \cup Pares(evs)
                  /\ conexion_abierta' = IF evs = << >> THEN conexion_abierta
                                         ELSE broker
                  /\ UNCHANGED ejecutando
  /\ UNCHANGED <<vars_procesador, vars_qdrant, vars_broker, vars_servicio, vars_consumidor, almacen, flujo_cambios, replica_set, mutaciones, ultimo_estado,
                 hilo_monitor, reloj, pasos_reloj, ultimo_tick>>

----------------------------------------------------------------------------
(* Environment: the clock *)

pasa_tiempo ==
  /\ pasos_reloj < MaxReloj
  /\ pasos_reloj' = pasos_reloj + 1
  /\ reloj' = reloj + PasoReloj
  /\ UNCHANGED <<vars_procesador, vars_qdrant, vars_broker, vars_servicio, vars_consumidor, almacen, flujo_cambios, replica_set, mutaciones, ultimo_estado,
                 ejecutando, hilo_monitor, ultimo_heartbeat, hilos,
                 conexion_abierta, cola, emitidos, ultimo_tick>>

----------------------------------------------------------------------------
(* ServicioCDC: iniciar() runs in the main thread; the variables of the monitor
   are those of self.monitor, the object the service holds at the moment *)

vars_objeto_servicio == <<vars_procesador, vars_qdrant, vars_broker, vars_consumidor, colecciones, almacen, flujo_cambios,
                          replica_set, mutaciones, reloj, pasos_reloj, cola,
                          emitidos, ultimo_tick>>

\* a start that goes on as if the broker had answered
conecta_sin_broker(mongo_ok, broker) == mongo_ok

\* the two connects of MonitorCambiosMongoDB.iniciar() succeed
conecta(mongo_ok, broker) == mongo_ok /\ (conexion_abierta \/ broker)

\* crear_monitor_cdc() followed by iniciar() of the new object
crear_e_iniciar(mongo_ok, broker) ==
  /\ ultimo_estado' = FcnVacia
  /\ IF conecta(mongo_ok, broker)
     THEN /\ Len(hilos) < MaxHilos
          /\ conexion_abierta' = TRUE
          /\ ejecutando' = TRUE
          /\ ultimo_heartbeat' = reloj
          /\ hilos' = Append(hilos, [modo |-> "arranque", cursor |-> 0])
          /\ hilo_monitor' = Len(hilos) + 1
     ELSE /\ ejecutando' = FALSE
          /\ ultimo_heartbeat' = 0
          /\ hilo_monitor' = 0
          /\ UNCHANGED <<hilos, conexion_abierta>>

\* main() calls iniciar()
servicio_iniciar ==
  /\ pc_servicio = "inactivo"
  /\ pc_servicio' = "iniciando"
  /\ intentos' = 0
  /\ UNCHANGED <<vars_monitor, vars_procesador, vars_qdrant, vars_broker, vars_consumidor, colecciones, terminando,
                 reinicios_fallidos>>

\* one turn of the outer while: lines 73-124
servicio_intento(mongo_ok, broker) ==
  /\ pc_servicio = "iniciando"
  /\ ~terminando
  /\ intentos < MAX_INTENTOS
  /\ crear_e_iniciar(mongo_ok, broker)
  /\ IF conecta(mongo_ok, broker)
     THEN pc_servicio' = "supervisando" /\ UNCHANGED intentos
     ELSE pc_servicio' = "iniciando" /\ intentos' = intentos + 1
  /\ UNCHANGED <<vars_objeto_servicio, terminando, reinicios_fallidos>>

\* the outer while is left: lines 126-130, detener() and return False
servicio_abandonar ==
  /\ pc_servicio = "iniciando"
  /\ terminando \/ intentos >= MAX_INTENTOS
  /\ pc_servicio' = "retorno_false"
  /\ ejecutando' = FALSE
  /\ UNCHANGED <<vars_objeto_servicio, ultimo_estado, hilo_monitor,
                 ultimo_heartbeat, hilos, conexion_abierta, terminando, intentos,
                 reinicios_fallidos>>

\* one turn of the inner while that finds the monitor running: lines 90-92, 106
servicio_supervisar_activo ==
  /\ pc_servicio = "supervisando"
  /\ ~terminando
  /\ esta_ejecutando
  /\ UNCHANGED vars

\* a supervisor that goes on to the new monitor without stopping the old one
servicio_supervisar_sin_detener ==
  /\ pc_servicio = "supervisando"
  /\ ~terminando
  /\ ~esta_ejecutando
  /\ pc_servicio' = "reiniciando"
  /\ UNCHANGED <<vars_objeto_servicio, ultimo_estado, hilo_monitor, ejecutando,
                 ultimo_heartbeat, hilos, conexion_abierta, terminando, intentos,
                 reinicios_fallidos>>

\* one turn of the inner while that finds the monitor not running: self.detener()
servicio_supervisar_inactivo ==
  /\ pc_servicio = "supervisando"
  /\ ~terminando
  /\ ~esta_ejecutando
  /\ ejecutando' = FALSE
  /\ pc_servicio' = "reiniciando"
  /\ UNCHANGED <<vars_objeto_servicio, ultimo_estado, hilo_monitor,
                 ultimo_heartbeat, hilos, conexion_abierta, terminando, intentos,
                 reinicios_fallidos>>

\* lines 96-105: a new monitor is created and started; when iniciar() returns
\* False the loop continues
servicio_reiniciar(mongo_ok, broker) ==
  /\ pc_servicio = "reiniciando"
  /\ crear_e_iniciar(mongo_ok, broker)
  /\ pc_servicio' = "supervisando"
  /\ IF conecta(mongo_ok, broker)
     THEN reinicios_fallidos' = 0
     ELSE /\ reinicios_fallidos < MaxReinicios
          /\ reinicios_fallidos' = reinicios_fallidos + 1
  /\ UNCHANGED <<vars_objeto_servicio, terminando, intentos>>

\* the inner while is left: finally detener(), return True
servicio_salir ==
  /\ pc_servicio = "supervisando"
  /\ terminando
  /\ pc_servicio' = "retorno_true"
  /\ ejecutando' = FALSE
  /\ UNCHANGED <<vars_objeto_servicio, ultimo_estado, hilo_monitor,
                 ultimo_heartbeat, hilos, conexion_abierta, terminando, intentos,
                 reinicios_fallidos>>

\* SIGINT or SIGTERM
handler_terminar ==
  /\ ~terminando
  /\ terminando' = TRUE
  /\ UNCHANGED <<vars_monitor, vars_procesador, vars_qdrant, vars_broker, vars_consumidor, colecciones, pc_servicio, intentos,
                 reinicios_fallidos>>

----------------------------------------------------------------------------
(* ConectorRabbitMQ: conector_rabbitmq.py. conexion and canal are the two
   references with their is_open flag; abandonadas counts the connections that
   were opened and whose reference was overwritten without close() *)

\* __new__ and __init__: the one instance, initialised once
ConectorRabbitMQ(k) ==
  IF k.inicializado THEN k
  ELSE [k EXCEPT !.inicializado = TRUE, !.conexion = "None", !.canal = "None"]

esta_conectado(k) == k.conexion = "abierta" /\ k.canal = "abierto"

\* connections of the process that are open
conexiones_abiertas(k) == (IF k.conexion = "abierta" THEN 1 ELSE 0) + k.abandonadas

\* the reference self.conexion is overwritten: an open connection stays open
soltar_conexion(k) ==
  IF k.conexion = "abierta" THEN k.abandonadas + 1 ELSE k.abandonadas

\* conectar(): broker says whether BlockingConnection(parametros) succeeds
conectar(k, broker) ==
  IF esta_conectado(k) THEN [k |-> k, ok |-> TRUE, intentos |-> 0]
  ELSE IF broker
       THEN [k |-> [k EXCEPT !.conexion = "abierta", !.canal = "abierto",
                             !.abandonadas = soltar_conexion(k)],
             ok |-> TRUE, intentos |-> 1]
       ELSE [k |-> [k EXCEPT !.conexion = "None", !.canal = "None",
                             !.abandonadas = soltar_conexion(k)],
             ok |-> FALSE, intentos |-> 1]

desconectar(k) ==
  IF k.conexion = "abierta"
  THEN [k EXCEPT !.conexion = "None",
                 !.canal = IF k.canal = "abierto" THEN "None" ELSE k.canal]
  ELSE k

\* what a request on the channel comes to: answered, the broker closes the
\* channel, or the connection is found lost
ResultadosES == {"ok", "canal", "conexion"}

\* the flags after a request with outcome es
tras_es(k, es) ==
  IF es = "ok" THEN k
  ELSE IF es = "canal" THEN [k EXCEPT !.canal = "cerrado"]
  ELSE [k EXCEPT !.conexion = "cerrada", !.canal = "cerrado"]

\* self.canal.queue_declare / basic_publish raise on a channel that is None or
\* closed, else the request goes out with outcome es
peticion(k, es) ==
  IF k.canal # "abierto" THEN [k |-> k, ok |-> FALSE]
  ELSE [k |-> tras_es(k, es), ok |-> es = "ok"]

\* the channel is created again on self.conexion when it is None or closed
reabrir_canal(k) ==
  IF k.canal # "abierto" /\ k.conexion = "abierta"
  THEN [k EXCEPT !.canal = "abierto"] ELSE k

\* declarar_cola(): b1, b2 are the outcomes of the two connects, es1, es2 of
\* the two queue_declare
declarar_cola(k, b1, es1, b2, es2) ==
  LET c1 == conectar(k, b1)
  IN IF ~c1.ok THEN [k |-> c1.k, ok |-> FALSE, intentos |-> c1.intentos]
     ELSE LET p1 == peticion(reabrir_canal(c1.k), es1)
          IN IF p1.ok THEN [k |-> p1.k, ok |-> TRUE, intentos |-> c1.intentos]
             ELSE LET c2 == conectar(desconectar(p1.k), b2)
                      n  == c1.intentos + c2.intentos
                  IN IF ~c2.ok THEN [k |-> c2.k, ok |-> FALSE, intentos |-> n]
                     ELSE LET p2 == peticion(reabrir_canal(c2.k), es2)
                          IN [k |-> p2.k, ok |-> p2.ok, intentos |-> n]

\* the outcomes of the requests and connects of one call of publicar_mensaje
Entradas ==
  [b0 : BOOLEAN, es1 : ResultadosES, b2 : BOOLEAN, es2 : ResultadosES,
   es3 : {"ok", "conexion"}]

\* the broker is unavailable throughout the call
NoDisponible == [b0 |-> FALSE, es1 |-> "conexion", b2 |-> FALSE, es2 |-> "conexion", es3 |-> "conexion"]

\* a publication that returns True whether or not basic_publish raised
publicar_mensaje_sin_comprobar(k, q, mensaje, e) ==
  LET c0 == conectar(k, e.b0)
      d  == declarar_cola(c0.k, e.b0, e.es1, e.b2, e.es2)
      p  == peticion(d.k, e.es3)
  IN [k |-> p.k, q |-> IF p.ok THEN Append(q, Mensaje(mensaje)) ELSE q,
      retorno |-> "True", intentos |-> c0.intentos + d.intentos]

\* publicar_mensaje(): q is the queue at the broker
publicar_mensaje(k, q, mensaje, e) ==
  LET c0 == conectar(k, e.b0)
  IN IF ~c0.ok
     THEN [k |-> c0.k, q |-> q, retorno |-> "False", intentos |-> c0.intentos]
     ELSE LET d == declarar_cola(c0.k, e.b0, e.es1, e.b2, e.es2)
              p == peticion(d.k, e.es3)
              n == c0.intentos + d.intentos
          IN IF p.ok
             THEN [k |-> p.k, q |-> Append(q, Mensaje(mensaje)), retorno |-> "True",
                   intentos |-> n]
             ELSE [k |-> p.k, q |-> q, retorno |-> "False", intentos |-> n]

vars_no_broker == <<vars_procesador, vars_qdrant, vars_consumidor, vars_servicio, almacen, flujo_cambios,
                    replica_set, mutaciones, ultimo_estado, ejecutando,
                    hilo_monitor, ultimo_heartbeat, hilos, reloj, pasos_reloj,
                    emitidos, ultimo_tick>>

\* ConectorRabbitMQ() somewhere in the process
construir_conector ==
  /\ conector' = ConectorRabbitMQ(conector)
  /\ UNCHANGED <<vars_no_broker, llamada, cola, conexion_abierta>>

llamar_conectar(broker) ==
  /\ conector.inicializado
  /\ LET c == conectar(conector, broker)
     IN /\ c.k.abandonadas <= MaxAbandonadas
        /\ conector' = c.k
        /\ conexion_abierta' = esta_conectado(c.k)
  /\ UNCHANGED <<vars_no_broker, llamada, cola>>

llamar_desconectar ==
  /\ conector.inicializado
  /\ conector' = desconectar(conector)
  /\ conexion_abierta' = FALSE
  /\ UNCHANGED <<vars_no_broker, llamada, cola>>

llamar_declarar_cola(b1, es1, b2, es2) ==
  /\ conector.inicializado
  /\ LET d == declarar_cola(conector, b1, es1, b2, es2)
     IN /\ d.k.abandonadas <= MaxAbandonadas
        /\ conector' = d.k
        /\ conexion_abierta' = esta_conectado(d.k)
  /\ UNCHANGED <<vars_no_broker, llamada, cola>>

llamar_publicar_mensaje(mensaje, e) ==
  /\ conector.inicializado
  /\ Len(cola) < MaxCola
  /\ LET r == publicar_mensaje(conector, cola, mensaje, e)
     IN /\ r.k.abandonadas <= MaxAbandonadas
        /\ conector' = r.k
        /\ cola' = r.q
        /\ llamada' = [retorno |-> r.retorno, intentos |-> r.intentos]
        /\ conexion_abierta' = esta_conectado(r.k)
  /\ UNCHANGED vars_no_broker

\* the broker closes the channel and leaves the connection open
cierra_canal ==
  /\ conector.canal = "abierto"
  /\ conector' = [conector EXCEPT !.canal = "cerrado"]
  /\ conexion_abierta' = FALSE
  /\ UNCHANGED <<vars_no_broker, llamada, cola>>

\* the collector frees a connection nothing refers to: its socket closes
recolectar ==
  /\ conector.abandonadas > 0
  /\ conector' = [conector EXCEPT !.abandonadas = @ - 1]
  /\ UNCHANGED <<vars_no_broker, llamada, cola, conexion_abierta>>

\* the consumer takes the head of the queue
consumir ==
  /\ cola # << >>
  /\ cola' = Tail(cola)
  /\ UNCHANGED <<vars_no_broker, vars_broker, conexion_abierta>>

----------------------------------------------------------------------------
(* Text processing: utils.py *)

RECURSIVE Suma(_)
Suma(s) == IF s = << >> THEN 0 ELSE Head(s) + Suma(Tail(s))

\* len() of a cleaned text: limpiar_texto leaves the sentences separated by
\* single spaces
Largo(texto) == IF texto = << >> THEN 0 ELSE Suma(texto) + Len(texto) - 1

\* the loop of dividir_en_trunks over the sentences of the single paragraph of
\* a cleaned text; trunk_actual is len(trunk_actual), trunks the lengths of
\* the trunks appended so far (strip() removes the trailing newline)
RECURSIVE empaquetar(_, _, _, _, _)
empaquetar(oraciones, trunk_actual, trunks, tam_trunk, solapamiento) ==
  IF oraciones = << >>
  THEN IF trunk_actual > 0 THEN Append(trunks, trunk_actual - 1) ELSE trunks
  ELSE LET oracion == Head(oraciones)
       IN IF trunk_actual + oracion > tam_trunk
          THEN empaquetar(Tail(oraciones),
                 (IF trunk_actual > solapamiento THEN solapamiento ELSE 0)
                   + oracion + 1,
                 Append(trunks, IF trunk_actual > 0 THEN trunk_actual - 1 ELSE 0),
                 tam_trunk, solapamiento)
          ELSE empaquetar(Tail(oraciones), trunk_actual + oracion + 1, trunks,
                          tam_trunk, solapamiento)

\* the lengths of the trunks of a text; the callers in the repository pass
\* the text alone, which is tam_trunk = 512 and solapamiento = 50
dividir_en_trunks(texto, tam_trunk, solapamiento) ==
  IF texto = << >> THEN << >>
  ELSE IF Largo(texto) <= tam_trunk THEN <<Largo(texto)>>
  ELSE empaquetar(texto, 0, << >>, tam_trunk, solapamiento)

\* a call of dividir_en_trunks(texto, tam_trunk, solapamiento); sentences
\* longer than tam_trunk would go through textwrap.wrap and are not passed
llamar_dividir_en_trunks(texto, tam_trunk, solapamiento) ==
  /\ \A k \in 1..Len(texto) : texto[k] <= tam_trunk
  /\ ultimos_trunks' = [texto |-> texto, tam_trunk |-> tam_trunk,
                        solapamiento |-> solapamiento,
                        trunks |-> dividir_en_trunks(texto, tam_trunk, solapamiento)]
  /\ UNCHANGED <<vars_monitor, vars_consumidor, vars_servicio, vars_broker,
                 vars_procesador, ultima_llamada>>

----------------------------------------------------------------------------
(* ConectorQdrant; q is [puntos, servidor, existentes] *)

\* collection names are tuples of their parts
COLECCION_TEXTOS == <<"textos_limpios">>

\* a point id drawn anew in every processing of a message
PuntoId_uuid4(id) == <<"uuid4", id, mensajes_cdc_procesados>>

\* int(id) raises for the ids used here, so the point id is uuid5(NAMESPACE_DNS, id)
PuntoId(id) == <<"uuid5", id>>

\* a vector is represented by its length, the one thing about it that the
\* connector and the server look at; 0 is the empty list

\* ok is FALSE when the call to the server raises; dimension 0 is None
crear_coleccion(q, nombre, dimension, ok) ==
  IF nombre \in q.existentes THEN [q |-> q, exito |-> TRUE]
  ELSE IF ~ok THEN [q |-> q, exito |-> FALSE]
  ELSE IF nombre \in DOMAIN q.servidor
       THEN [q |-> [q EXCEPT !.existentes = @ \cup {nombre}], exito |-> TRUE]
       ELSE [q |-> [q EXCEPT !.servidor =
                       Poner(@, nombre, IF dimension = 0 THEN dimension_embeddings
                                        ELSE dimension),
                             !.existentes = @ \cup {nombre}],
             exito |-> TRUE]

\* eliminar_coleccion: delete_collection at the server, which takes the points
\* of the collection with it, then the name leaves the cache
eliminar_coleccion(q, nombre, ok) ==
  IF ~ok THEN [q |-> q, exito |-> FALSE]
  ELSE [q |-> [q EXCEPT
                 !.servidor = [n \in DOMAIN @ \ {nombre} |-> @[n]],
                 !.puntos = [k \in {x \in DOMAIN @ : x[1] # nombre} |-> @[k]],
                 !.existentes = @ \ {nombre}],
        exito |-> TRUE]

\* f"{prefijo}{course_id}" with the prefix "curso_" of the configuration's
\* default: the text f"curso_{id_curso}" gives for an int of the same value
NombreColeccionCurso(course_id) == <<"curso", <<"int", course_id>>>>

\* a slug is its text and its length; course_name_slug[:max_slug_len]
safe_slug(course_name_slug) ==
  <<course_name_slug[1], IF course_name_slug[2] > 50 THEN 50 ELSE course_name_slug[2]>>

\* the name asegurar_coleccion_curso builds; course_name_slug is << >> for
\* None and for ""
nombre_coleccion_curso(course_id, course_name_slug) ==
  IF course_name_slug # << >>
  THEN <<"curso", <<"int", course_id>>, safe_slug(course_name_slug)>>
  ELSE NombreColeccionCurso(course_id)

\* asegurar_coleccion_curso: the name, or << >> for None
asegurar_coleccion_curso(q, course_id, course_name_slug, ok) ==
  LET nombre_coleccion == nombre_coleccion_curso(course_id, course_name_slug)
      c == crear_coleccion(q, nombre_coleccion, dimension_embeddings, ok)
  IN [q |-> c.q,
      nombre |-> IF c.exito THEN nombre_coleccion ELSE << >>]

\* a server that stores whatever it is sent
vector_admitido_siempre(q, coleccion, vector) == TRUE

\* cliente.upsert raises unless the collection exists at the server and the
\* vector has its size
vector_admitido(q, coleccion, vector) ==
  coleccion \in DOMAIN q.servidor /\ q.servidor[coleccion] = vector

\* a store that keeps nothing but the point written last
upsert_unico(q, coleccion, punto_id, vector, payload) ==
  [q EXCEPT !.puntos = (<<coleccion, punto_id>> :> (payload @@ [vector |-> vector]))]

\* the point stored: the payload and the vector
upsert(q, coleccion, punto_id, vector, payload) ==
  [q EXCEPT !.puntos = Poner(@, <<coleccion, punto_id>>,
                             payload @@ [vector |-> vector])]

guardar_texto_limpio(q, id_texto, texto, metadatos, fallo) ==
  LET c == crear_coleccion(q, COLECCION_TEXTOS, 1, fallo # "coleccion")
  IN IF ~c.exito THEN [q |-> q, exito |-> FALSE]
     ELSE IF fallo = "texto" \/ ~vector_admitido(c.q, COLECCION_TEXTOS, 1)
     THEN [q |-> c.q, exito |-> FALSE]
     ELSE [q |-> upsert(c.q, COLECCION_TEXTOS, PuntoId(id_texto), 1,
                        metadatos @@ [texto |-> texto, id_original |-> id_texto]),
           exito |-> TRUE]

\* the payload starts with texto, texto_original_id and id_original (the
\* id_embedding), and every key of the metadatos with a scalar value is then
\* written over it: the metadatos the callers pass carry id_original (the
\* document id), which replaces the one the payload started with
guardar_embedding(q, id_embedding, texto, embedding, texto_original_id, metadatos, coleccion, ok) ==
  IF ~ok \/ embedding < 1 THEN [q |-> q, exito |-> FALSE]
  ELSE LET c == crear_coleccion(q, coleccion, embedding, ok)
       IN IF ~c.exito \/ ~vector_admitido(c.q, coleccion, embedding)
          THEN [q |-> c.q, exito |-> FALSE]
          ELSE [q |-> upsert(c.q, coleccion, PuntoId(id_embedding), embedding,
                        metadatos @@ [texto |-> texto,
                                      texto_original_id |-> texto_original_id,
                                      id_original |-> id_embedding]),
                exito |-> TRUE]

\* buscar_por_id_original: the points of the collection whose payload has
\* id_original equal to the id asked for (ids are strings: str() keeps them)
buscar_por_id_original(q, coleccion, id_original) ==
  {p \in DOMAIN q.puntos : p[1] = coleccion /\ q.puntos[p].id_original = id_original}

----------------------------------------------------------------------------
(* ProcesadorIntegrado *)

COLECCIONES_TEXTO == {"archivos", "recursos"}

Fallos == {"ninguno", "conexion", "texto", "coleccion"}

\* f"{id_doc}_chunk_{i}"
IdEmbedding(id_doc, i) == <<id_doc, "chunk", i>>

\* f"curso_{id_curso}": str() of an int and of a double differ
NombreColeccion(id_curso) == <<"curso", id_curso>>

\* the loop over the chunks from position i on; malos are the positions whose
\* embedding comes back empty or whose guardar_embedding fails
\* a loop that gives the document up at the first chunk without an embedding
procesar_chunks_hasta_fallo(q, chunks, i, ctx, malos) ==
  LET primero == IF malos = {} THEN Len(chunks)
                 ELSE CHOOSE k \in malos : \A j \in malos : k <= j
      r == [j \in 0..(Len(chunks) - 1) |->
              guardar_embedding(q, IdEmbedding(ctx.id_doc, j),
                [documento |-> ctx.texto, largo |-> chunks[j + 1]],
                dimension_embeddings, ctx.id_doc,
                [id_original |-> ctx.id_doc, id_curso |-> ctx.id_curso,
                 operacion |-> ctx.operacion, indice |-> j,
                 total_chunks |-> Len(chunks)],
                ctx.coleccion, TRUE)]
      hechos == {j \in 0..(Len(chunks) - 1) : j < primero}
  IN [q |-> [q EXCEPT !.puntos =
               [p \in DOMAIN q.puntos \cup
                       {<<ctx.coleccion, PuntoId(IdEmbedding(ctx.id_doc, j))>> : j \in hechos} |->
                  IF \E j \in hechos : p = <<ctx.coleccion, PuntoId(IdEmbedding(ctx.id_doc, j))>>
                  THEN LET j == CHOOSE j \in hechos :
                                   p = <<ctx.coleccion, PuntoId(IdEmbedding(ctx.id_doc, j))>>
                       IN r[j].q.puntos[p]
                  ELSE q.puntos[p]]],
      chunks_procesados |-> Cardinality(hechos)]

RECURSIVE procesar_chunks(_, _, _, _, _)
procesar_chunks(q, chunks, i, ctx, malos) ==
  IF i >= Len(chunks) THEN [q |-> q, chunks_procesados |-> 0]
  ELSE LET r == IF i \in malos THEN [q |-> q, exito |-> FALSE]
                ELSE guardar_embedding(q, IdEmbedding(ctx.id_doc, i),
                       [documento |-> ctx.texto, largo |-> chunks[i + 1]],
                       dimension_embeddings, ctx.id_doc,
                       [id_original |-> ctx.id_doc, id_curso |-> ctx.id_curso,
                        operacion |-> ctx.operacion, indice |-> i,
                        total_chunks |-> Len(chunks)],
                       ctx.coleccion, TRUE)
           s == procesar_chunks(r.q, chunks, i + 1, ctx, malos)
       IN [q |-> s.q,
           chunks_procesados |-> s.chunks_procesados + (IF r.exito THEN 1 ELSE 0)]

procesar_documento_texto(q, creadas, id_doc, documento, operacion, fallo, malos) ==
  LET metadatos == [id_original |-> id_doc, id_curso |-> documento.id_curso,
                    operacion |-> operacion]
      t == guardar_texto_limpio(q, id_doc, documento.texto, metadatos, fallo)
      nombre_coleccion == NombreColeccion(documento.id_curso)
      c == IF nombre_coleccion \in creadas THEN [q |-> t.q, exito |-> TRUE]
           ELSE crear_coleccion(t.q, nombre_coleccion, 0, fallo # "coleccion")
      g == procesar_chunks(c.q, dividir_en_trunks(documento.texto, TAM_TRUNK, SOLAPAMIENTO), 0,
             [id_doc |-> id_doc, texto |-> documento.texto,
              id_curso |-> documento.id_curso, operacion |-> operacion,
              coleccion |-> nombre_coleccion], malos)
  IN IF fallo = "conexion" THEN [q |-> q, creadas |-> creadas, exito |-> FALSE]
     ELSE IF ~t.exito THEN [q |-> t.q, creadas |-> creadas, exito |-> FALSE]
     ELSE IF ~c.exito THEN [q |-> c.q, creadas |-> creadas, exito |-> FALSE]
     ELSE [q |-> g.q, creadas |-> creadas \cup {nombre_coleccion},
           exito |-> g.chunks_procesados > 0]

\* never raises: every exception is caught and logged
procesar_mensaje_cdc(q, creadas, procesados, mensaje, fallo, malos) ==
  LET tipo_operacion == mensaje.operationType
      coleccion == mensaje.coll
      documento_id == mensaje.id
      texto == IF mensaje.fullDocument = << >> THEN << >>
               ELSE mensaje.fullDocument[1].texto
      sin_cambio == [q |-> q, creadas |-> creadas, procesados |-> procesados]
  IN IF texto = << >> /\ coleccion \in COLECCIONES_TEXTO
     THEN sin_cambio @@ [resultado |-> "sin_texto"]
     ELSE IF tipo_operacion \in {"insert", "update", "replace"}
             /\ coleccion \in COLECCIONES_TEXTO
     THEN LET r == procesar_documento_texto(q, creadas, documento_id,
                     mensaje.fullDocument[1], tipo_operacion, fallo, malos)
          IN [q |-> r.q, creadas |-> r.creadas, procesados |-> procesados + 1,
              resultado |-> IF r.exito THEN "exitoso" ELSE "fallido"]
     ELSE IF tipo_operacion = "delete"
     THEN sin_cambio @@ [resultado |-> "eliminado"]
     ELSE sin_cambio @@ [resultado |-> "no_procesable"]

qdrant == [puntos |-> puntos, servidor |-> colecciones_qdrant,
           existentes |-> colecciones_existentes]

\* a body arrives in the queue the consumer is subscribed to
llega_mensaje(cuerpo) ==
  /\ Len(cola) < MaxCola
  /\ Len(cola) + Len(historial) < MaxHistorial
  /\ cola' = Append(cola, [cuerpo |-> cuerpo, entregas |-> 0])
  /\ UNCHANGED <<vars_procesador, vars_qdrant, vars_broker, vars_servicio, vars_consumidor, almacen, flujo_cambios, replica_set, mutaciones,
                 ultimo_estado, ejecutando, hilo_monitor, ultimo_heartbeat,
                 hilos, reloj, pasos_reloj, conexion_abierta, emitidos,
                 ultimo_tick>>

\* one delivery of the head of the queue (prefetch_count = 1) and its answer;
\* basic_nack is called without requeue, which pika defaults to True: the
\* message goes back to the head of the queue
callback_procesamiento(fallo, malos) ==
  /\ cola # << >>
  /\ Len(historial) < MaxHistorial
  /\ Head(cola).entregas < MaxEntregas
  /\ LET body == Head(cola).cuerpo
     IN IF ~es_json(body)
        THEN /\ cola' = <<[Head(cola) EXCEPT !.entregas = @ + 1]>> \o Tail(cola)
             /\ historial' = Append(historial,
                  [cuerpo |-> body, resultado |-> "no_json", respuesta |-> "nack"])
             /\ UNCHANGED <<puntos, colecciones_qdrant, colecciones_existentes,
                            colecciones_creadas, mensajes_cdc_procesados>>
        ELSE LET r == procesar_mensaje_cdc(qdrant, colecciones_creadas,
                        mensajes_cdc_procesados, json_loads(body), fallo, malos)
             IN /\ puntos' = r.q.puntos
                /\ colecciones_qdrant' = r.q.servidor
                /\ colecciones_existentes' = r.q.existentes
                /\ colecciones_creadas' = r.creadas
                /\ mensajes_cdc_procesados' = r.procesados
                /\ cola' = Tail(cola)
                /\ historial' = Append(historial,
                     [cuerpo |-> body, resultado |-> r.resultado,
                      respuesta |-> "ack"])
  /\ UNCHANGED <<vars_procesador, vars_qdrant, vars_broker, vars_servicio, almacen, flujo_cambios,
                 replica_set, mutaciones, ultimo_estado,
                 ejecutando, hilo_monitor, ultimo_heartbeat, hilos, reloj,
                 pasos_reloj, conexion_abierta, emitidos, ultimo_tick>>

----------------------------------------------------------------------------
(* ConectorQdrant under calls from its users *)

vars_no_qdrant == <<vars_procesador, vars_monitor, vars_servicio, vars_broker, colecciones_creadas,
                    mensajes_cdc_procesados, historial>>

\* _cargar_colecciones_existentes, called by conectar(): the cache of a new
\* process holds the names the server has
cargar_colecciones_existentes ==
  /\ colecciones_existentes' = DOMAIN colecciones_qdrant
  /\ UNCHANGED <<vars_no_qdrant, vars_qdrant, puntos, colecciones_qdrant>>

\* another process using the same server creates a collection
otro_proceso_crea(nombre, dimension) ==
  /\ nombre \notin DOMAIN colecciones_qdrant
  /\ colecciones_qdrant' = Poner(colecciones_qdrant, nombre, dimension)
  /\ UNCHANGED <<vars_no_qdrant, vars_qdrant, puntos, colecciones_existentes>>

\* another process using the same server deletes a collection
otro_proceso_elimina(nombre) ==
  /\ nombre \in DOMAIN colecciones_qdrant
  /\ colecciones_qdrant' = [n \in DOMAIN colecciones_qdrant \ {nombre} |->
                              colecciones_qdrant[n]]
  /\ puntos' = [k \in {x \in DOMAIN puntos : x[1] # nombre} |-> puntos[k]]
  /\ UNCHANGED <<vars_no_qdrant, vars_qdrant, colecciones_existentes>>

llamar_eliminar_coleccion(nombre, ok) ==
  /\ LET e == eliminar_coleccion(qdrant, nombre, ok)
     IN /\ puntos' = e.q.puntos
        /\ colecciones_qdrant' = e.q.servidor
        /\ colecciones_existentes' = e.q.existentes
        /\ ultima_llamada' = [operacion |-> "eliminar_coleccion", nombre |-> nombre,
                              dimension |-> 0, conectado |-> ok, exito |-> e.exito]
  /\ UNCHANGED <<vars_no_qdrant, ultimos_trunks>>

llamar_crear_coleccion(nombre, dimension, ok) ==
  /\ LET c == crear_coleccion(qdrant, nombre, dimension, ok)
     IN /\ colecciones_qdrant' = c.q.servidor
        /\ colecciones_existentes' = c.q.existentes
        /\ ultima_llamada' = [operacion |-> "crear_coleccion", nombre |-> nombre,
                              dimension |-> dimension, conectado |-> ok,
                              exito |-> c.exito]
  /\ UNCHANGED <<vars_no_qdrant, puntos, ultimos_trunks>>

llamar_asegurar_coleccion_curso(course_id, course_name_slug, ok) ==
  /\ LET a == asegurar_coleccion_curso(qdrant, course_id, course_name_slug, ok)
     IN /\ colecciones_qdrant' = a.q.servidor
        /\ colecciones_existentes' = a.q.existentes
        /\ ultima_llamada' = [operacion |-> "asegurar_coleccion_curso",
                              nombre |-> a.nombre,
                              dimension |-> dimension_embeddings, conectado |-> ok,
                              exito |-> a.nombre # << >>]
  /\ UNCHANGED <<vars_no_qdrant, puntos, ultimos_trunks>>

llamar_guardar_embedding(id_doc, embedding, coleccion, ok) ==
  /\ LET g == guardar_embedding(qdrant, IdEmbedding(id_doc, 0),
                [documento |-> <<embedding>>, largo |-> embedding], embedding, id_doc,
                [id_original |-> id_doc, id_curso |-> coleccion[2],
                 operacion |-> "insert", indice |-> 0, total_chunks |-> 1],
                coleccion, ok)
     IN /\ puntos' = g.q.puntos
        /\ colecciones_qdrant' = g.q.servidor
        /\ colecciones_existentes' = g.q.existentes
        /\ ultima_llamada' = [operacion |-> "guardar_embedding", nombre |-> coleccion,
                              dimension |-> embedding, conectado |-> ok,
                              exito |-> g.exito]
  /\ UNCHANGED <<vars_no_qdrant, ultimos_trunks>>

----------------------------------------------------------------------------------------------------------------------------------------
(* guardar_embedding and crear_coleccion step by step: each call to the
   server is a step of its own, and other callers run between the steps *)

vars_no_trabajadores == <<filtro_operaciones, procesador, flujo, vars_qdrant, vars_monitor,
                          vars_servicio, vars_broker, colecciones_creadas,
                          mensajes_cdc_procesados, historial>>

\* guardar_embedding is called with a vector and a collection: the cache is
\* looked at, and crear_coleccion is entered when the name is not in it
guardar_embedding_entra(w, coleccion) ==
  /\ trabajadores[w].pc = "libre"
  /\ trabajadores' = [trabajadores EXCEPT ![w] =
       [pc |-> IF coleccion \in colecciones_existentes THEN "upsert" ELSE "comprobar",
        nombre |-> coleccion, retorno |-> "ninguno"]]
  /\ UNCHANGED <<vars_no_trabajadores, puntos, colecciones_qdrant, colecciones_existentes>>

\* crear_coleccion: nombre in self.colecciones_existentes or collection_exists(nombre)
crear_coleccion_comprueba(w) ==
  /\ trabajadores[w].pc = "comprobar"
  /\ IF \/ trabajadores[w].nombre \in colecciones_existentes
        \/ trabajadores[w].nombre \in DOMAIN colecciones_qdrant
     THEN /\ colecciones_existentes' = colecciones_existentes \cup {trabajadores[w].nombre}
          /\ trabajadores' = [trabajadores EXCEPT ![w].pc = "upsert"]
     ELSE /\ trabajadores' = [trabajadores EXCEPT ![w].pc = "crear"]
          /\ UNCHANGED colecciones_existentes
  /\ UNCHANGED <<vars_no_trabajadores, puntos, colecciones_qdrant>>

\* crear_coleccion: create_collection, which the server refuses for a name it
\* already has; the exception is caught, crear_coleccion returns False and so
\* does guardar_embedding
crear_coleccion_crea(w) ==
  /\ trabajadores[w].pc = "crear"
  /\ IF trabajadores[w].nombre \in DOMAIN colecciones_qdrant
     THEN /\ trabajadores' = [trabajadores EXCEPT ![w].pc = "libre",
                                                  ![w].retorno = "False"]
          /\ UNCHANGED <<colecciones_qdrant, colecciones_existentes>>
     ELSE /\ colecciones_qdrant' = Poner(colecciones_qdrant, trabajadores[w].nombre,
                                         dimension_embeddings)
          /\ colecciones_existentes' = colecciones_existentes \cup {trabajadores[w].nombre}
          /\ trabajadores' = [trabajadores EXCEPT ![w].pc = "upsert"]
  /\ UNCHANGED <<vars_no_trabajadores, puntos>>

\* guardar_embedding: the point of the caller is written
guardar_embedding_upsert(w) ==
  /\ trabajadores[w].pc = "upsert"
  /\ IF vector_admitido(qdrant, trabajadores[w].nombre, dimension_embeddings)
     THEN /\ puntos' = upsert(qdrant, trabajadores[w].nombre,
                         PuntoId(IdEmbedding(IdStr(w), 0)), dimension_embeddings,
                         [texto |-> [documento |-> <<dimension_embeddings>>,
                                     largo |-> dimension_embeddings],
                          texto_original_id |-> IdStr(w),
                          id_original |-> IdStr(w),
                          id_curso |-> trabajadores[w].nombre[2],
                          operacion |-> "insert", indice |-> 0,
                          total_chunks |-> 1]).puntos
          /\ trabajadores' = [trabajadores EXCEPT ![w].pc = "libre",
                                                  ![w].retorno = "True"]
     ELSE /\ trabajadores' = [trabajadores EXCEPT ![w].pc = "libre",
                                                  ![w].retorno = "False"]
          /\ UNCHANGED puntos
  /\ UNCHANGED <<vars_no_trabajadores, colecciones_qdrant, colecciones_existentes>>

----------------
(* FlujoProcesamientoArchivos: the stages configurar() defines, in the order
   it adds them to the dataflow, and the thread that runs them *)

\* text[:limite]: the sentences that fit, the last one cut
RECURSIVE truncar(_, _)
truncar(texto, limite) ==
  IF texto = << >> \/ limite <= 0 THEN << >>
  ELSE IF Head(texto) >= limite THEN <<limite>>
  ELSE <<Head(texto)>> \o truncar(Tail(texto), limite - Head(texto) - 1)

\* a filter that lets every change with a document through
filtrar_documento_todo(mensaje) ==
  IF mensaje.fullDocument # << >>
  THEN <<[_id |-> mensaje.id] @@ mensaje.fullDocument[1]>>
  ELSE << >>

\* stage 2 (filter_map): the fullDocument, or << >> for None
filtrar_documento(mensaje) ==
  IF /\ mensaje.operationType \in {"insert", "update", "replace"}
     /\ mensaje.fullDocument # << >>
     /\ mensaje.fullDocument[1].texto # << >>
  THEN <<[_id |-> mensaje.id] @@ mensaje.fullDocument[1]>>
  ELSE << >>

\* stage 3 (map); id_curso << >> is the "" of a document without the field
extraer_info(documento) ==
  [id |-> documento._id,
   texto |-> IF Largo(documento.texto) > limite_tam_texto
             THEN truncar(documento.texto, limite_tam_texto)
             ELSE documento.texto,
   metadatos |-> [id_original |-> documento._id, id_curso |-> documento.id_curso]]

\* stage 4 (map): the text is cleaned and stored as a clean text; what
\* guardar_texto_limpio returns is not looked at
limpiar_y_formatear(q, datos, fallo) ==
  IF datos.texto = << >> THEN [q |-> q, datos |-> datos]
  ELSE [q |-> guardar_texto_limpio(q, datos.id, datos.texto, datos.metadatos, fallo).q,
        datos |-> datos]

\* stage 5 (flat_map): one item per chunk
generar_chunks(datos) ==
  LET chunks == dividir_en_trunks(datos.texto, TAM_TRUNK, SOLAPAMIENTO)
  IN [i \in 1..Len(chunks) |->
        [id |-> IdEmbedding(datos.id, i - 1),
         id_original |-> datos.id,
         texto |-> chunks[i],
         metadatos |-> datos.metadatos @@
                       [indice_chunk |-> i - 1, total_chunks |-> Len(chunks)]]]

\* stage 6 (filter_map): the chunk with its embedding, or << >> for None when
\* generar_embedding returns nothing for it
generar_embedding_para_chunk(chunk, falla) ==
  IF chunk.texto = 0 \/ falla THEN << >>
  ELSE <<chunk @@ [embedding |-> dimension_embeddings]>>

\* a last stage that sends everything to one collection
preparar_salida_general(chunk) == chunk @@ [coleccion |-> <<"general">>]

\* stage 7 (map): `if id_curso:` is false for "" and for 0
preparar_salida_qdrant(chunk) ==
  LET id_curso == chunk.metadatos.id_curso
  IN chunk @@ [coleccion |-> IF id_curso # << >> /\ id_curso[2] # 0
                             THEN NombreColeccion(id_curso)
                             ELSE <<"general">>]

\* stages 6 and 7 over the chunks of a document; malos are the positions
\* whose embedding fails
RECURSIVE embeber_y_preparar(_, _)
embeber_y_preparar(chunks, malos) ==
  IF chunks = << >> THEN << >>
  ELSE LET e == generar_embedding_para_chunk(Head(chunks),
                  Head(chunks).metadatos.indice_chunk \in malos)
       IN (IF e = << >> THEN << >> ELSE <<preparar_salida_qdrant(e[1])>>)
          \o embeber_y_preparar(Tail(chunks), malos)

\* what the chunk stage emits for a message that entered the dataflow
chunks_de(mensaje) ==
  LET f == filtrar_documento(mensaje)
  IN IF f = << >> THEN << >> ELSE generar_chunks(extraer_info(f[1]))

vars_no_flujo == <<filtro_operaciones, procesador, trabajadores, vars_qdrant, vars_broker,
                   vars_servicio, vars_monitor, colecciones_creadas,
                   mensajes_cdc_procesados, historial>>

\* ejecutar(), the flow configured: the thread is started; vivo is what
\* is_alive() answers two seconds later
flujo_ejecutar(vivo) ==
  /\ IF flujo.ejecutando
     THEN flujo' = flujo
     ELSE flujo' = [flujo EXCEPT !.ejecutando = vivo,
                                 !.hilo = IF vivo THEN "vivo" ELSE "terminado",
                                 !.retorno = "ninguno"]
  /\ UNCHANGED <<vars_no_flujo, puntos, colecciones_qdrant, colecciones_existentes>>

\* run_main takes a message through the stages. It is given the dataflow and
\* the connectors, never the flow object: nothing in it reads self.ejecutando
flujo_procesa(mensaje, malos, fallo) ==
  /\ flujo.hilo = "vivo"
  /\ flujo.mensajes_procesados < MaxMensajes
  /\ LET f == filtrar_documento(mensaje)
         l == limpiar_y_formatear(qdrant, extraer_info(f[1]), fallo)
         chunks == chunks_de(mensaje)
         salida == embeber_y_preparar(chunks, malos)
     IN IF f = << >>
        THEN /\ flujo' = [flujo EXCEPT !.chunks = << >>, !.salida = << >>]
             /\ UNCHANGED <<puntos, colecciones_qdrant, colecciones_existentes>>
        ELSE /\ puntos' = l.q.puntos
             /\ colecciones_qdrant' = l.q.servidor
             /\ colecciones_existentes' = l.q.existentes
             /\ flujo' = [flujo EXCEPT
                  !.mensajes_procesados = @ + 1,
                  !.embeddings_generados = @ + Len(salida),
                  !.errores = @ + (Len(chunks) - Len(salida)),
                  !.chunks = chunks,
                  !.salida = salida]
  /\ UNCHANGED vars_no_flujo

\* _ejecutar_flujo: run_main returns or raises, the finally clause runs
flujo_termina ==
  /\ flujo.hilo = "vivo"
  /\ flujo' = [flujo EXCEPT !.hilo = "terminado", !.ejecutando = FALSE]
  /\ UNCHANGED <<vars_no_flujo, puntos, colecciones_qdrant, colecciones_existentes>>

\* detener(): the flag is cleared and the thread joined for five seconds;
\* a_tiempo is whether run_main happened to end within them
flujo_detener(a_tiempo) ==
  /\ IF ~flujo.ejecutando
     THEN flujo' = [flujo EXCEPT !.retorno = "True"]
     ELSE flujo' = [flujo EXCEPT !.ejecutando = FALSE,
                                 !.hilo = IF a_tiempo THEN "terminado" ELSE @,
                                 !.retorno = "True"]
  /\ UNCHANGED <<vars_no_flujo, puntos, colecciones_qdrant, colecciones_existentes>>

\* f"{item.id}_trunk_{i}"
IdTrunk(id, i) == <<id, "trunk", i>>

\* HandlerChunking.procesar: one ModeloTrunk per trunk, with the fields the
\* handler passes
HandlerChunking_procesar(item) ==
  LET chunks == dividir_en_trunks(item.texto_limpio, TAM_TRUNK, SOLAPAMIENTO)
  IN [i \in 1..Len(chunks) |->
        [id |-> IdTrunk(item.id, i - 1),
         tipo |-> item.tipo,
         texto |-> chunks[i],
         indice |-> i - 1,
         metadatos |-> item.metadatos,
         texto_original_id |-> item.id]]

\* ChunkingDispatcher.procesar on a cleaned document
ChunkingDispatcher_procesar(item) ==
  /\ flujo' = [flujo EXCEPT !.trunks = HandlerChunking_procesar(item)]
  /\ UNCHANGED <<vars_no_flujo, puntos, colecciones_qdrant, colecciones_existentes>>

----------------------------------------------------------------------------
(* crear_monitor_cdc and ProcesadorIntegrado, its caller *)

\* crear_monitor_cdc: MonitorCambiosMongoDB(...) is built and returned; filtro {}
\* is None. The fields of the new monitor are those of __init__
crear_monitor_cdc(cols, filtro) ==
  /\ colecciones' = cols
  /\ filtro_operaciones' = IF filtro = {} THEN OPERACIONES ELSE filtro
  /\ ejecutando' = FALSE
  /\ hilo_monitor' = 0
  /\ ultimo_heartbeat' = 0
  /\ ultimo_estado' = FcnVacia

\* a process builds its monitor, before any worker exists
llamar_crear_monitor_cdc(cols, filtro) ==
  /\ hilos = << >>
  /\ crear_monitor_cdc(cols, filtro)
  /\ UNCHANGED <<procesador, flujo, trabajadores, vars_qdrant, vars_broker,
                 vars_consumidor, pc_servicio, terminando, intentos,
                 reinicios_fallidos, almacen, flujo_cambios, replica_set,
                 mutaciones, hilos, reloj, pasos_reloj, conexion_abierta, cola,
                 emitidos, ultimo_tick>>

vars_no_procesador == <<filtro_operaciones, flujo, trabajadores, vars_qdrant, vars_broker,
                        vars_consumidor, vars_servicio, almacen, flujo_cambios,
                        replica_set, mutaciones, ultimo_estado, hilo_monitor,
                        ultimo_heartbeat, hilos, reloj, pasos_reloj, cola,
                        emitidos, ultimo_tick>>

\* ejecutar_flujo_completo, step 2: iniciar_consumidor_rabbitmq opens a channel
\* on the connection and starts the consumer thread; when it fails the run
\* goes to its finally clause
iniciar_consumidor_rabbitmq(ok) ==
  /\ procesador.pc = "inactivo"
  /\ procesador' = [procesador EXCEPT !.consumidor = IF ok THEN "canal" ELSE "None",
                                      !.pc = IF ok THEN "consumiendo" ELSE "limpiar"]
  /\ conexion_abierta' = (conexion_abierta \/ ok)
  /\ UNCHANGED <<vars_no_procesador, ejecutando>>

\* step 3: iniciar_monitor_cdc keeps what crear_monitor_cdc returns and logs
\* that the monitor was started
iniciar_monitor_cdc ==
  /\ procesador.pc = "consumiendo"
  /\ hilos = << >>
  /\ crear_monitor_cdc(ColeccionesMonitoreadas, {"insert", "update", "replace", "delete"})
  /\ procesador' = [procesador EXCEPT !.monitor_cdc = TRUE, !.pc = "esperando"]
  /\ UNCHANGED <<flujo, trabajadores, vars_qdrant, vars_broker, vars_consumidor,
                 pc_servicio, terminando, intentos, reinicios_fallidos, almacen,
                 flujo_cambios, replica_set, mutaciones, hilos, reloj, pasos_reloj,
                 conexion_abierta, cola, emitidos, ultimo_tick>>

\* steps 4 to 6 are over (or raised): the finally clause is entered
terminar_espera ==
  /\ procesador.pc = "esperando"
  /\ procesador' = [procesador EXCEPT !.pc = "limpiar"]
  /\ UNCHANGED <<vars_no_procesador, ejecutando, conexion_abierta>>

\* limpiar_recursos, lines 646-667: the consumer is cancelled and its channel closed
limpiar_consumidor ==
  /\ procesador.pc = "limpiar"
  /\ procesador' = IF procesador.consumidor = "canal"
                   THEN [procesador EXCEPT !.consumidor = "cerrado",
                                           !.paradas = Append(@, "consumidor"),
                                           !.pc = "limpiar_monitor"]
                   ELSE [procesador EXCEPT !.pc = "limpiar_monitor"]
  /\ UNCHANGED <<vars_no_procesador, ejecutando, conexion_abierta>>

\* lines 669-674: monitor_cdc.detener()
limpiar_monitor ==
  /\ procesador.pc = "limpiar_monitor"
  /\ IF procesador.monitor_cdc
     THEN /\ ejecutando' = FALSE
          /\ procesador' = [procesador EXCEPT !.paradas = Append(@, "monitor"),
                                              !.pc = "limpiar_conexiones"]
     ELSE /\ UNCHANGED ejecutando
          /\ procesador' = [procesador EXCEPT !.pc = "limpiar_conexiones"]
  /\ UNCHANGED <<vars_no_procesador, conexion_abierta>>

\* lines 676-693: the connectors are disconnected
limpiar_conexiones ==
  /\ procesador.pc = "limpiar_conexiones"
  /\ conexion_abierta' = FALSE
  /\ procesador' = [procesador EXCEPT !.paradas = Append(@, "conectores"),
                                      !.pc = "fin"]
  /\ UNCHANGED <<vars_no_procesador, ejecutando>>

----------------------------------------------------------------------------
NextAlmacen ==
  \/ \E c \in Colecciones, i \in Ids, d \in DocsAlmacen : guardar(c, i, d)
  \/ \E c \in Colecciones, i \in Ids, d \in DocsAlmacen : actualizar(c, i, d)
  \/ \E c \in Colecciones, i \in Ids : eliminar(c, i)

\* a standalone server (no change streams): the monitor is started once and
\* left polling
InitPolling == Init /\ ~replica_set /\ colecciones = ColeccionesMonitoreadas

NextPolling ==
  \/ NextAlmacen
  \/ \E m \in BOOLEAN, b \in BOOLEAN : iniciar(m, b)
  \/ \E h \in 1..Len(hilos), f \in Fallas : caer_a_polling(h, f)
  \/ \E h \in 1..Len(hilos), f \in Fallas, b \in BOOLEAN :
       monitorear_por_polling(h, f, b)

SpecPolling == InitPolling /\ [][NextPolling]_vars

\* the monitor is started and stopped while time passes; one document comes
\* and goes in each collection
DocVida == [texto |-> <<300>>, id_curso |-> <<"int", 2>>]

FallaNinguna == [c \in Colecciones |-> -1]

NextVida ==
  \/ \E c \in Colecciones : guardar(c, 1, DocVida)
  \/ \E c \in Colecciones : eliminar(c, 1)
  \/ \E m \in BOOLEAN, b \in BOOLEAN : iniciar(m, b)
  \/ detener
  \/ \E h \in 1..Len(hilos) : abrir_change_stream(h)
  \/ \E h \in 1..Len(hilos) : caer_a_polling(h, FallaNinguna)
  \/ \E h \in 1..Len(hilos) : fallar_listado(h)
  \/ \E h \in 1..Len(hilos), b \in BOOLEAN :
       monitorear_por_polling(h, FallaNinguna, b)
  \/ \E h \in 1..Len(hilos) : terminar_polling(h)
  \/ \E h \in 1..Len(hilos), b \in BOOLEAN : monitorear_coleccion(h, b)
  \/ pasa_tiempo

SpecVida == Init /\ [][NextVida]_vars

\* a monitor started and stopped, its workers scheduled fairly: a worker that
\* can take a step of its loop takes it in the end. An open stream raising
\* under a blocked worker (caer_a_polling from "nativo") can happen but is not
\* owed: after detener() has closed the client, whether the blocked iteration
\* raises or reconnects and stays blocked depends on the driver installed, and
\* no version is pinned
NextParada ==
  \/ guardar(ColeccionesMonitoreadas[1], 1, DocVida)
  \/ eliminar(ColeccionesMonitoreadas[1], 1)
  \/ \E m \in BOOLEAN, b \in BOOLEAN : iniciar(m, b)
  \/ detener
  \/ \E h \in 1..Len(hilos) :
       \/ abrir_change_stream(h)
       \/ caer_a_polling(h, FallaNinguna)
       \/ fallar_listado(h)
       \/ \E b \in BOOLEAN : monitorear_por_polling(h, FallaNinguna, b)
       \/ terminar_polling(h)
       \/ \E b \in BOOLEAN : monitorear_coleccion(h, b)

paso_de_hilo(h) ==
  /\ h \in 1..Len(hilos)
  /\ \/ abrir_change_stream(h)
     \/ hilos[h].modo = "arranque" /\ caer_a_polling(h, FallaNinguna)
     \/ hilos[h].modo = "arranque" /\ fallar_listado(h)
     \/ \E b \in BOOLEAN : monitorear_por_polling(h, FallaNinguna, b)
     \/ terminar_polling(h)
     \/ \E b \in BOOLEAN : monitorear_coleccion(h, b)

SpecParada ==
  /\ Init
  /\ [][NextParada]_vars
  /\ \A h \in 1..MaxHilos : WF_vars(paso_de_hilo(h))

\* the service supervising its monitor: the worker of the monitor it holds
\* runs, changes arrive in the watched collection and time passes
InitServicio ==
  /\ Init
  /\ \A c \in Colecciones : almacen[c] = FcnVacia

NextServicio ==
  \/ servicio_iniciar
  \/ \E m \in BOOLEAN, b \in BOOLEAN : servicio_intento(m, b)
  \/ servicio_abandonar
  \/ servicio_supervisar_activo
  \/ servicio_supervisar_inactivo
  \/ \E m \in BOOLEAN, b \in BOOLEAN : servicio_reiniciar(m, b)
  \/ servicio_salir
  \/ handler_terminar
  \/ hilo_monitor # 0 /\ abrir_change_stream(hilo_monitor)
  \/ hilo_monitor # 0 /\ caer_a_polling(hilo_monitor, FallaNinguna)
  \/ hilo_monitor # 0 /\ fallar_listado(hilo_monitor)
  \/ \E b \in BOOLEAN :
       hilo_monitor # 0 /\ monitorear_por_polling(hilo_monitor, FallaNinguna, b)
  \/ hilo_monitor # 0 /\ terminar_polling(hilo_monitor)
  \/ \E b \in BOOLEAN : hilo_monitor # 0 /\ monitorear_coleccion(hilo_monitor, b)
  \/ guardar(ColeccionesMonitoreadas[1], 1, DocVida)
  \/ pasa_tiempo

SpecServicio == InitServicio /\ [][NextServicio]_vars

\* the main loop of the service keeps turning, and a restart whose connects
\* succeed is not put off for ever
SpecServicioJusto ==
  /\ SpecServicio
  /\ WF_vars(servicio_supervisar_inactivo)
  /\ SF_vars(\E m \in BOOLEAN, b \in BOOLEAN : servicio_reiniciar(m, b) /\ conecta(m, b))

\* the connector of one process under calls from its users, with a broker that
\* may refuse connections, close channels and lose connections
MensajesBroker ==
  {Cambio("insert", "cursos", IdStr(1), <<DocVida>>),
   Cambio("delete", "cursos", IdStr(1), << >>)}

NextBroker ==
  \/ construir_conector
  \/ \E b \in BOOLEAN : llamar_conectar(b)
  \/ llamar_desconectar
  \/ \E b1 \in BOOLEAN, es1 \in ResultadosES, b2 \in BOOLEAN, es2 \in ResultadosES :
       llamar_declarar_cola(b1, es1, b2, es2)
  \/ \E m \in MensajesBroker, e \in Entradas : llamar_publicar_mensaje(m, e)
  \/ cierra_canal
  \/ recolectar
  \/ consumir

SpecBroker == InitServicio /\ [][NextBroker]_vars

\* a polling monitor whose scans can raise, started and stopped
NextSondeo ==
  \/ \E c \in Colecciones : guardar(c, 1, DocVida)
  \/ \E c \in Colecciones : eliminar(c, 1)
  \/ \E m \in BOOLEAN, b \in BOOLEAN : iniciar(m, b)
  \/ detener
  \/ \E h \in 1..Len(hilos), f \in Fallas : caer_a_polling(h, f)
  \/ \E h \in 1..Len(hilos), f \in Fallas, b \in BOOLEAN :
       monitorear_por_polling(h, f, b)
  \/ \E h \in 1..Len(hilos) : terminar_polling(h)

SpecSondeo == InitPolling /\ [][NextSondeo]_vars

\* a monitor in either mode on a store whose documents are written, changed
\* and deleted while its worker is behind
NextEventos ==
  \/ NextAlmacen
  \/ \E b \in BOOLEAN : iniciar(TRUE, b)
  \/ \E h \in 1..Len(hilos) : abrir_change_stream(h)
  \/ \E h \in 1..Len(hilos) : hilos[h].modo = "arranque" /\ caer_a_polling(h, FallaNinguna)
  \/ \E h \in 1..Len(hilos) : monitorear_por_polling(h, FallaNinguna, TRUE)
  \/ \E h \in 1..Len(hilos) : monitorear_coleccion(h, TRUE)

SpecEventos == Init /\ [][NextEventos]_vars

\* a monitor built for two collections, started on an empty store; documents
\* are written to either collection once its worker is monitoring
InitColecciones == InitServicio /\ colecciones = ColeccionesMonitoreadas

NextColecciones ==
  \/ \E b \in BOOLEAN : iniciar(TRUE, b)
  \/ \E h \in 1..Len(hilos) : abrir_change_stream(h)
  \/ \E h \in 1..Len(hilos) : hilos[h].modo = "arranque" /\ caer_a_polling(h, FallaNinguna)
  \/ \E h \in 1..Len(hilos), b \in BOOLEAN : monitorear_por_polling(h, FallaNinguna, b)
  \/ \E h \in 1..Len(hilos), b \in BOOLEAN : monitorear_coleccion(h, b)
  \/ \E c \in Colecciones, i \in Ids :
       /\ \E h \in 1..Len(hilos) : hilos[h].modo \in {"nativo", "polling"}
       /\ \/ guardar(c, i, DocVida)
          \/ eliminar(c, i)

SpecColecciones == InitColecciones /\ [][NextColecciones]_vars

\* the consumer alone: the bodies that arrive are changes of one document of
\* a course, a change of another collection, and bytes that are not JSON
DocV1 == [texto |-> <<400, 200>>, id_curso |-> <<"int", 2>>]

DocV2 == [texto |-> <<300>>, id_curso |-> <<"int", 2>>]

CuerposCola ==
  {json_dumps(Cambio("insert", "recursos", IdStr(1), <<DocV1>>)),
   json_dumps(Cambio("update", "recursos", IdStr(1), <<DocV1>>)),
   json_dumps(Cambio("update", "recursos", IdStr(1), <<DocV2>>)),
   json_dumps(Cambio("delete", "recursos", IdStr(1), << >>)),
   json_dumps(Cambio("delete", "cursos", IdStr(2), << >>)),
   json_dumps(Cambio("insert", "cursos", IdStr(2), <<DocV2>>)),
   NO_JSON}

InitConsumidor ==
  /\ Init
  /\ ~replica_set
  /\ colecciones = ColeccionesMonitoreadas
  /\ \A c \in Colecciones : almacen[c] = FcnVacia

NextConsumidor ==
  \/ \E cuerpo \in CuerposCola : llega_mensaje(cuerpo)
  \/ \E fallo \in Fallos, malos \in SUBSET (0..(MaxChunks - 1)) :
       callback_procesamiento(fallo, malos)

SpecConsumidor == InitConsumidor /\ [][NextConsumidor]_vars

\* a flow started and stopped while changes go through its stages, and the
\* dispatcher of the chunk stage applied to cleaned documents
DocSinCurso == [texto |-> <<300>>, id_curso |-> << >>]

DocSinTexto == [texto |-> << >>, id_curso |-> <<"int", 2>>]

MensajesFlujo ==
  {Cambio("insert", "recursos", IdStr(1), <<DocV1>>),
   Cambio("update", "recursos", IdStr(1), <<DocV2>>),
   Cambio("replace", "recursos", IdStr(2), <<DocSinCurso>>),
   Cambio("insert", "cursos", IdStr(2), <<DocV2>>),
   Cambio("insert", "recursos", IdStr(2), <<DocSinTexto>>),
   Cambio("delete", "recursos", IdStr(1), << >>),
   Cambio("delete", "recursos", IdStr(1), <<DocV2>>),
   Cambio("drop", "recursos", IdStr(1), <<DocV2>>)}

ItemsLimpios ==
  {[id |-> IdStr(1), tipo |-> "txt", texto_limpio |-> DocV1.texto,
    metadatos |-> [id_curso |-> DocV1.id_curso]],
   [id |-> IdStr(2), tipo |-> "txt", texto_limpio |-> DocV2.texto,
    metadatos |-> [id_curso |-> DocV2.id_curso]]}

NextFlujo ==
  \/ \E vivo \in BOOLEAN : flujo_ejecutar(vivo)
  \/ \E m \in MensajesFlujo, malos \in SUBSET (0..(MaxChunks - 1)),
        fallo \in {"ninguno", "texto", "coleccion"} : flujo_procesa(m, malos, fallo)
  \/ flujo_termina
  \/ \E a_tiempo \in BOOLEAN : flujo_detener(a_tiempo)
  \/ \E item \in ItemsLimpios : ChunkingDispatcher_procesar(item)

SpecFlujo == InitConsumidor /\ [][NextFlujo]_vars

\* the two pipelines fed with the same changes side by side: the flow, and
\* the consumer of ProcesadorIntegrado
MensajesFiltrado ==
  {Cambio("insert", "recursos", IdStr(1), <<DocV2>>),
   Cambio("insert", "cursos", IdStr(2), <<DocV2>>),
   Cambio("update", "recursos", IdStr(2), <<DocSinTexto>>),
   Cambio("delete", "recursos", IdStr(1), << >>),
   Cambio("delete", "recursos", IdStr(1), <<DocV2>>)}

NextFiltrado ==
  \/ flujo_ejecutar(TRUE)
  \/ \E m \in MensajesFiltrado : flujo_procesa(m, {}, "ninguno")
  \/ \E m \in MensajesFiltrado : llega_mensaje(json_dumps(m))
  \/ callback_procesamiento("ninguno", {})

SpecFiltrado == InitConsumidor /\ [][NextFiltrado]_vars

\* changes of two documents of the same course go through the consumer of
\* ProcesadorIntegrado and through the flow, and any of them may fail
MensajesDocumentos ==
  {Cambio("insert", "recursos", IdStr(1), <<DocV1>>),
   Cambio("insert", "recursos", IdStr(2), <<DocV2>>)}

NextDocumentos ==
  \/ \E m \in MensajesDocumentos : llega_mensaje(json_dumps(m))
  \/ \E fallo \in Fallos, malos \in SUBSET (0..(MaxChunks - 1)) :
       callback_procesamiento(fallo, malos)
  \/ flujo_ejecutar(TRUE)
  \/ \E m \in MensajesDocumentos, fallo \in {"ninguno", "texto"} :
       flujo_procesa(m, {0}, fallo)

SpecDocumentos == InitConsumidor /\ [][NextDocumentos]_vars

\* dividir_en_trunks called on texts of 3000 characters, made of sentences of
\* about 500 and about 1000 characters joined by single spaces, and the flow
\* fed with documents that hold such texts
OracionesTrozos == {499, 500, 999, 1000}

TextosTrozos ==
  {t \in UNION {[1..n -> OracionesTrozos] : n \in 3..6} : Largo(t) = 3000}

ParametrosTrozos == {<<1000, 200>>, <<TAM_TRUNK, SOLAPAMIENTO>>}

MensajesTrozos ==
  {Cambio("insert", "recursos", IdStr(1), <<[texto |-> t, id_curso |-> <<"int", 2>>]>>) :
     t \in {u \in TextosTrozos : \A k \in 1..Len(u) : u[k] <= TAM_TRUNK}}

NextTrozos ==
  \/ \E t \in TextosTrozos, p \in ParametrosTrozos :
       llamar_dividir_en_trunks(t, p[1], p[2])
  \/ flujo_ejecutar(TRUE)
  \/ \E m \in MensajesTrozos : flujo_procesa(m, {}, "ninguno")

SpecTrozos == InitConsumidor /\ [][NextTrozos]_vars

\* one run of ejecutar_flujo_completo: documents are saved in the store while
\* the run waits
NextProcesador ==
  \/ \E ok \in BOOLEAN : iniciar_consumidor_rabbitmq(ok)
  \/ iniciar_monitor_cdc
  \/ terminar_espera
  \/ limpiar_consumidor
  \/ limpiar_monitor
  \/ limpiar_conexiones
  \/ \E c \in Colecciones, i \in Ids, d \in DocsAlmacen :
       procesador.pc = "esperando" /\ guardar(c, i, d)

SpecProcesador == Init /\ [][NextProcesador]_vars

\* monitors built with a filter of operations, or with none, and started on a
\* store whose first watched collection gains, changes and loses a document
Filtros == {{}, {"insert", "update", "replace"}, {"delete"}}

NextFiltro ==
  \/ \E f \in Filtros : llamar_crear_monitor_cdc(ColeccionesMonitoreadas, f)
  \/ guardar(ColeccionesMonitoreadas[1], 1, DocVida)
  \/ eliminar(ColeccionesMonitoreadas[1], 1)
  \/ \E m \in BOOLEAN, b \in BOOLEAN : iniciar(m, b)
  \/ \E h \in 1..Len(hilos) : abrir_change_stream(h)
  \/ \E h \in 1..Len(hilos) : caer_a_polling(h, FallaNinguna)
  \/ \E h \in 1..Len(hilos), b \in BOOLEAN :
       monitorear_por_polling(h, FallaNinguna, b)
  \/ \E h \in 1..Len(hilos), b \in BOOLEAN : monitorear_coleccion(h, b)

SpecFiltro == InitServicio /\ [][NextFiltro]_vars

Cursos == {1, 2}

\* two callers of guardar_embedding at work on the same connector and server
NextTrabajadores ==
  \/ \E w \in 1..MaxTrabajadores, c \in Cursos :
       guardar_embedding_entra(w, NombreColeccionCurso(c))
  \/ \E w \in 1..MaxTrabajadores : crear_coleccion_comprueba(w)
  \/ \E w \in 1..MaxTrabajadores : crear_coleccion_crea(w)
  \/ \E w \in 1..MaxTrabajadores : guardar_embedding_upsert(w)

SpecTrabajadores == InitConsumidor /\ [][NextTrabajadores]_vars

\* the vector store under calls that name collections and sizes freely
Dimensiones == {1, 2, dimension_embeddings}

NextQdrant ==
  \/ cargar_colecciones_existentes
  \/ \E c \in Cursos, d \in Dimensiones : otro_proceso_crea(NombreColeccionCurso(c), d)
  \/ \E c \in Cursos, d \in Dimensiones, ok \in BOOLEAN :
       llamar_crear_coleccion(NombreColeccionCurso(c), d, ok)
  \/ \E c \in Cursos, ok \in BOOLEAN : llamar_asegurar_coleccion_curso(c, << >>, ok)
  \/ \E i \in Ids, v \in Dimensiones \cup {0}, c \in Cursos, ok \in BOOLEAN :
       llamar_guardar_embedding(IdStr(i), v, NombreColeccionCurso(c), ok)

SpecQdrant == InitConsumidor /\ [][NextQdrant]_vars

\* the connector of one process creating, deleting and writing collections,
\* reconnecting, while other processes create and delete collections at the
\* same server
NextCache ==
  \/ cargar_colecciones_existentes
  \/ \E c \in Cursos : otro_proceso_crea(NombreColeccionCurso(c), dimension_embeddings)
  \/ \E c \in Cursos : otro_proceso_elimina(NombreColeccionCurso(c))
  \/ \E c \in Cursos, ok \in BOOLEAN :
       llamar_crear_coleccion(NombreColeccionCurso(c), dimension_embeddings, ok)
  \/ \E c \in Cursos, ok \in BOOLEAN :
       llamar_eliminar_coleccion(NombreColeccionCurso(c), ok)
  \/ \E i \in Ids, c \in Cursos, ok \in BOOLEAN :
       llamar_guardar_embedding(IdStr(i), dimension_embeddings,
                                NombreColeccionCurso(c), ok)

SpecCache == InitConsumidor /\ [][NextCache]_vars

\* create_ai_for_course secures the collection of a course, with the slug of
\* the course name when Moodle knows the course, while the two pipelines
\* process documents of the courses
Slugs == {<<"introduccion", 60>>}

MensajesCurso ==
  {Cambio("insert", "recursos", IdStr(c),
          <<[texto |-> <<300>>, id_curso |-> <<"int", c>>]>>) : c \in Cursos}

NextCurso ==
  \/ \E c \in Cursos, slug \in Slugs \cup {<< >>}, ok \in BOOLEAN :
       llamar_asegurar_coleccion_curso(c, slug, ok)
  \/ flujo_ejecutar(TRUE)
  \/ \E m \in MensajesCurso : flujo_procesa(m, {}, "ninguno")
  \/ \E m \in MensajesCurso : llega_mensaje(json_dumps(m))
  \/ callback_procesamiento("ninguno", {})

SpecCurso == InitConsumidor /\ [][NextCurso]_vars

----------------------------------------------------------------------------
(* Claims about the polling monitor *)

Cuerpos(q) == {json_loads(q[k].cuerpo) : k \in {j \in 1..Len(q) : es_json(q[j].cuerpo)}}

\* the change is not yet reflected in the snapshot, so a later tick detects it again
Pendiente(ev) ==
  LET snap == ultimo_estado[ev.coll]
      i == ev.id[2]
  IN IF ev.operationType = "delete"
     THEN i \in DOMAIN snap
     ELSE i \notin DOMAIN snap
          \/ snap[i] # normalizar_documento(ev.fullDocument[1])

\* C1: every change the monitor detects is published at least once: after a tick,
\* each change it detected is in the queue or is still pending in the sense that
\* the snapshot has not moved past it (a later tick publishes it).
C1_CambioNoSePierde ==
  \A k \in 1..Len(ultimo_tick) :
     ultimo_tick[k] \in Cuerpos(cola) \/ Pendiente(ultimo_tick[k])

\* <<operation, id>> of the changes of coleccion c in a sequence of changes
ParesDe(c, evs) ==
  {<<evs[k].operationType, evs[k].id>> : k \in {j \in 1..Len(evs) : evs[j].coll = c}}

CuantosDe(c, evs) == Cardinality({j \in 1..Len(evs) : evs[j].coll = c})

\* what a tick has to emit for a collection given the previous snapshot P and the
\* normalized scan S
ParesEsperados(P, S) ==
  {<<"insert", IdStr(i)>> : i \in (DOMAIN S) \ (DOMAIN P)}
  \cup {<<"update", IdStr(i)>> : i \in {j \in (DOMAIN S) \cap (DOMAIN P) : S[j] # P[j]}}
  \cup {<<"delete", IdStr(i)>> : i \in (DOMAIN P) \ (DOMAIN S)}

TickCorrecto(f) ==
  \A c \in Colecciones :
     f[c] = -1 =>
       LET P == ultimo_estado[c]
           S == [i \in DOMAIN almacen[c] |-> normalizar_documento(almacen[c][i])]
       IN /\ ParesDe(c, ultimo_tick') = ParesEsperados(P, S)
          /\ CuantosDe(c, ultimo_tick') = Cardinality(ParesEsperados(P, S))
          /\ ultimo_estado'[c] = S

\* C2: in every polling tick, for every collection whose scan completed, with P
\* the previous snapshot and S the scan: exactly one insert per id in S and not
\* in P, one update per id in both whose normalized content differs, one delete
\* per id in P and not in S, nothing else, and afterwards the snapshot is S.
C2_TickPolling ==
  [][\A h \in 1..Len(hilos), f \in Fallas, b \in BOOLEAN :
       monitorear_por_polling(h, f, b) => TickCorrecto(f)]_vars

\* a tick has just reported an insert and a delete
C2_Testigo ==
  /\ \E k \in 1..Len(ultimo_tick) : ultimo_tick[k].operationType = "insert"
  /\ \E k \in 1..Len(ultimo_tick) : ultimo_tick[k].operationType = "delete"

\* what the native subscription emits for the feed: _procesar_cambio applied to
\* each change watch() delivers
RECURSIVE emitidos_nativo(_)
emitidos_nativo(feed) ==
  IF feed = << >> THEN {}
  ELSE (IF EnFlujoNativo(Head(feed)) THEN Pares(procesar_cambio(Head(feed))) ELSE {})
       \cup emitidos_nativo(Tail(feed))

\* C9: for the same sequence of mutations the two modes emit the same set of
\* (operation, document id) pairs: once a polling worker that began before any
\* mutation has caught up with the collection the native mode watches, the pairs
\* it has emitted for that collection are the pairs the native mode emits.
C9_ModosEquivalentes ==
  LET c == ColeccionesMonitoreadas[1]
  IN \A h \in 1..Len(hilos) :
       (/\ hilos[h].modo = "polling"
        /\ hilos[h].cursor = 0
        /\ ultimo_estado[c] = documentos_actuales(c))
       => {p \in emitidos : p[2] = c} = emitidos_nativo(flujo_cambios)

----------------------------------------------------------------------------
(* Claims about the monitor's life cycle *)

\* C10: esta_ejecutando() answers True exactly when the worker thread is alive,
\* the last heartbeat is at most 30 seconds old and the ejecutando flag is set;
\* in every other case it answers False.
C10_MonitorSaludable ==
  esta_ejecutando <=> (/\ hilo_vivo(hilo_monitor)
                       /\ reloj - ultimo_heartbeat <= HEARTBEAT_MAX
                       /\ ejecutando)

\* the thread is alive and the flag is set, but the heartbeat is stale
C10_Testigo ==
  /\ hilo_vivo(hilo_monitor)
  /\ ejecutando
  /\ reloj - ultimo_heartbeat > HEARTBEAT_MAX
  /\ ~esta_ejecutando

----------------------------------------------------------------------------
(* Claims about the consumer and the vector store *)

\* C3: a delivery is acked only after its processing succeeded: a delivery whose
\* document could not be processed (a stage failed or no chunk was stored) is
\* answered with nack, never with ack.
C3_AckSoloTrasExito ==
  \A k \in 1..Len(historial) :
     historial[k].respuesta = "ack" => historial[k].resultado # "fallido"

\* C4: a body that is not valid JSON is rejected without requeue, so it is never
\* delivered again: no such body waits in the queue after a delivery.
C4_NoJsonNoVuelve ==
  \A k \in 1..Len(cola) : ~es_json(cola[k].cuerpo) => cola[k].entregas = 0

\* C5: redelivery is limited by a retry ceiling: no message reaches the number
\* of deliveries up to which redeliveries are followed.
C5_EntregasAcotadas ==
  \A k \in 1..Len(cola) : cola[k].entregas < MaxEntregas

\* the payloads of the chunk points stored for a document
PuntosDe(id_doc) ==
  {puntos[p] : p \in {r \in DOMAIN puntos : /\ r[1] # COLECCION_TEXTOS
                                            /\ puntos[r].texto_original_id = id_doc}}

\* C6: upsert is idempotent per logical chunk: whatever is processed and however
\* often, a collection holds at most one point for a chunk position of a document.
C6_UnPuntoPorChunk ==
  \A p \in DOMAIN puntos, r \in DOMAIN puntos :
     (/\ p[1] = r[1]
      /\ p[1] # COLECCION_TEXTOS
      /\ puntos[p].texto_original_id = puntos[r].texto_original_id
      /\ puntos[p].indice = puntos[r].indice)
     => p = r

\* the same body was processed twice with success and its chunk is stored
C6_Testigo ==
  /\ \E j \in 1..Len(historial), k \in 1..Len(historial) :
        /\ j < k
        /\ historial[j].cuerpo = historial[k].cuerpo
        /\ historial[j].cuerpo = json_dumps(Cambio("update", "recursos", IdStr(1), <<DocV2>>))
        /\ historial[j].resultado = "exitoso"
        /\ historial[k].resultado = "exitoso"
  /\ Cardinality(PuntosDe(IdStr(1))) = 1

Exitosos(id_doc) ==
  {k \in 1..Len(historial) : /\ historial[k].resultado = "exitoso"
                             /\ json_loads(historial[k].cuerpo).id = id_doc}

\* C7: after two changes of a document were processed, the points stored for it
\* all come from one version of the document, never from both.
C7_UnaSolaVersion ==
  \A i \in Ids :
     Cardinality(Exitosos(IdStr(i))) >= 2 =>
       \A p \in PuntosDe(IdStr(i)), r \in PuntosDe(IdStr(i)) :
          p.texto.documento = r.texto.documento

\* C8: once a delete event of a document has been consumed, the points stored
\* for that document are gone from the vector store.
C8_DeleteQuitaPuntos ==
  historial # << >> =>
    LET ultima == historial[Len(historial)]
    IN (/\ es_json(ultima.cuerpo)
        /\ json_loads(ultima.cuerpo).operationType = "delete"
        /\ json_loads(ultima.cuerpo).coll \in COLECCIONES_TEXTO
        /\ ultima.respuesta = "ack")
       => PuntosDe(json_loads(ultima.cuerpo).id) = {}

\* C12: an error of the native subscription, at open or while iterating, makes
\* the worker switch to polling and go on monitoring: while the stop flag is set
\* a worker leaves the start-up or the native mode only for the native or the
\* polling mode, never by terminating.
C12_CaeAPolling ==
  [][\A h \in 1..Len(hilos) :
       (/\ hilos[h].modo \in {"arranque", "nativo"}
        /\ ejecutando
        /\ hilos'[h].modo # hilos[h].modo)
       => hilos'[h].modo \in {"nativo", "polling"}]_vars

\* C13: in polling mode an error during a pass is absorbed: the pass leaves the
\* worker in the polling loop with the stop flag as it was, and a worker leaves
\* the polling loop only by terminating after the stop flag was cleared.
C13_ErrorAbsorbido ==
  [][/\ \A h \in 1..Len(hilos), f \in Fallas, b \in BOOLEAN :
          monitorear_por_polling(h, f, b) =>
            hilos'[h].modo = "polling" /\ ejecutando' = ejecutando
     /\ \A h \in 1..Len(hilos) :
          (hilos[h].modo = "polling" /\ hilos'[h].modo # "polling") =>
            ~ejecutando /\ hilos'[h].modo = "terminado"]_vars

\* a pass whose scan raised after it had reported an insert: the snapshot does
\* not hold the document, and the worker is still polling
C13_Testigo ==
  \E h \in 1..Len(hilos) :
     /\ hilos[h].modo = "polling"
     /\ ejecutando
     /\ \E k \in 1..Len(ultimo_tick) :
           /\ ultimo_tick[k].operationType = "insert"
           /\ ultimo_tick[k].id[2] \notin DOMAIN ultimo_estado[ultimo_tick[k].coll]

----------------------------------------------------------------------------
(* ServicioCDC and the start of the monitor *)

\* the supervisor is in its loop and its monitor is not running
NoCorre == pc_servicio = "supervisando" /\ ~terminando /\ ~esta_ejecutando

C14_ArranqueFallido ==
  [][/\ \A m \in BOOLEAN, b \in BOOLEAN :
          (/\ servicio_intento(m, b) \/ servicio_reiniciar(m, b)
           /\ ~m \/ (~conexion_abierta /\ ~b))
          => /\ hilos' = hilos
             /\ ~ejecutando'
             /\ hilo_monitor' = 0
             /\ \/ intentos' = intentos + 1
                \/ reinicios_fallidos' = reinicios_fallidos + 1
     /\ Len(hilos') > Len(hilos) =>
          \E m \in BOOLEAN, b \in BOOLEAN :
            /\ servicio_intento(m, b) \/ servicio_reiniciar(m, b)
            /\ m /\ (conexion_abierta \/ b)]_vars

\* a start has failed with MongoDB reachable and the broker not: no worker,
\* flag down, no broker connection
C14_Testigo ==
  /\ pc_servicio = "iniciando"
  /\ intentos > 0
  /\ hilos = << >>
  /\ ~ejecutando
  /\ ~conexion_abierta

C16_IntentosAcotados ==
  /\ intentos <= MAX_INTENTOS
  /\ reinicios_fallidos <= MAX_INTENTOS

----------------------------------------------------------------------------
(* ConectorRabbitMQ *)

C18_UnaConexion == conexiones_abiertas(conector) <= 1

----------------------------------------------------------------------------
(* ConectorQdrant: collections and vector sizes *)

\* C19: ensuring a collection reports success only when the collection the
\* server holds under that name has the size asked for
C19_DimensionDistintaFalla ==
  (/\ ultima_llamada.operacion \in {"crear_coleccion", "asegurar_coleccion_curso"}
   /\ ultima_llamada.exito)
  => colecciones_qdrant[ultima_llamada.nombre] = ultima_llamada.dimension

----------------------------------------------------------------------------
(* Claims about the stages of the pipeline *)

\* the change a JSON body of the queue carries asks for its text to be processed
EsDocumentoTexto(mensaje) ==
  /\ mensaje.operationType \in {"insert", "update", "replace"}
  /\ mensaje.coll \in COLECCIONES_TEXTO
  /\ mensaje.fullDocument # << >>
  /\ mensaje.fullDocument[1].texto # << >>

\* C22: when the embedding of a chunk of a document comes back empty or failed,
\* only that chunk is dropped: a processing in which nothing else fails stores
\* every other chunk of the document, with its own index and text.
C22_SoloSeDescartaElChunk ==
  [][\A malos \in SUBSET (0..(MaxChunks - 1)) :
       (/\ callback_procesamiento("ninguno", malos)
        /\ es_json(Head(cola).cuerpo)
        /\ EsDocumentoTexto(json_loads(Head(cola).cuerpo)))
       => LET m == json_loads(Head(cola).cuerpo)
              chunks == dividir_en_trunks(m.fullDocument[1].texto, TAM_TRUNK, SOLAPAMIENTO)
          IN \A i \in 0..(Len(chunks) - 1) :
               i \notin malos =>
                 LET p == <<NombreColeccion(m.fullDocument[1].id_curso),
                            PuntoId(IdEmbedding(m.id, i))>>
                 IN /\ p \in DOMAIN puntos'
                    /\ puntos'[p].indice = i
                    /\ puntos'[p].texto.largo = chunks[i + 1]]_vars

\* a document of two chunks was processed and its second chunk is stored
\* while its first is not
C22_Testigo ==
  /\ \E k \in 1..Len(historial) :
        /\ historial[k].resultado = "exitoso"
        /\ es_json(historial[k].cuerpo)
        /\ json_loads(historial[k].cuerpo).fullDocument = <<DocV1>>
  /\ <<NombreColeccion(DocV1.id_curso), PuntoId(IdEmbedding(IdStr(1), 1))>> \in DOMAIN puntos
  /\ <<NombreColeccion(DocV1.id_curso), PuntoId(IdEmbedding(IdStr(1), 0))>> \notin DOMAIN puntos

\* C27: on shutdown the monitor is stopped first, the consumer of the broker
\* after it and the connectors last: whenever the consumer has been stopped the
\* monitor was stopped before it, and the connectors are closed after both.
C27_OrdenDeParada ==
  \A i \in 1..Len(procesador.paradas) :
     /\ procesador.paradas[i] = "consumidor" =>
          (procesador.monitor_cdc =>
             \E j \in 1..(i - 1) : procesador.paradas[j] = "monitor")
     /\ procesador.paradas[i] = "conectores" =>
          \A j \in 1..Len(procesador.paradas) : j <= i

\* C29: crear_monitor_cdc returns a started monitor: once the caller holds it
\* (and has not stopped it) ejecutando is True and its worker is running.
C29_MonitorIniciado ==
  (procesador.monitor_cdc /\ procesador.pc = "esperando")
  => (ejecutando /\ hilo_vivo(hilo_monitor))

\* C30: only changes whose operation is in filtro_operaciones are published to
\* the queue, whichever mode the worker runs in.
C30_SoloOperacionesFiltradas ==
  \A k \in 1..Len(cola) :
     es_json(cola[k].cuerpo) =>
       json_loads(cola[k].cuerpo).operationType \in filtro_operaciones

\* a change asks for its text to be embedded: insert, update or replace with a
\* fullDocument whose text is not empty
ConTexto(mensaje) ==
  /\ mensaje.operationType \in {"insert", "update", "replace"}
  /\ mensaje.fullDocument # << >>
  /\ mensaje.fullDocument[1].texto # << >>

\* the deliveries whose change went on to _procesar_documento_texto
Pasaron == {k \in 1..Len(historial) : historial[k].resultado \in {"exitoso", "fallido"}}

\* C25 as stated: the filter passes a change on exactly when it is an insert,
\* update or replace whose fullDocument has a non-empty text, in the flow and
\* in ProcesadorIntegrado alike.
C25_FiltroExacto ==
  /\ [][\A m \in MensajesFiltrado :
          flujo_procesa(m, {}, "ninguno") => (flujo'.chunks # << >> <=> ConTexto(m))]_vars
  /\ [](\A k \in 1..Len(historial) :
          es_json(historial[k].cuerpo) =>
            (k \in Pasaron <=> ConTexto(json_loads(historial[k].cuerpo))))

\* C25, amended: the flow passes a change on exactly when it is an insert,
\* update or replace whose fullDocument has a non-empty text; ProcesadorIntegrado
\* asks in addition that the change be of the collections archivos or recursos.
\* Every delete and every change without text is dropped by both and yields no
\* chunk.
C25_FiltroPorColeccion ==
  /\ [][\A m \in MensajesFiltrado :
          flujo_procesa(m, {}, "ninguno") =>
            /\ flujo'.chunks # << >> <=> ConTexto(m)
            /\ ~ConTexto(m) => (flujo'.salida = << >> /\ puntos' = puntos)]_vars
  /\ [](\A k \in 1..Len(historial) :
          es_json(historial[k].cuerpo) =>
            (k \in Pasaron <=>
               /\ ConTexto(json_loads(historial[k].cuerpo))
               /\ json_loads(historial[k].cuerpo).coll \in COLECCIONES_TEXTO))
  /\ [][(/\ callback_procesamiento("ninguno", {})
           /\ ~ConTexto(json_loads(Head(cola).cuerpo)))
          => puntos' = puntos]_vars

\* the flow dropped a delete that carried a document, and the consumer
\* dropped a change of a course and processed one of a resource
C25_Testigo ==
  /\ flujo.mensajes_procesados > 0
  /\ flujo.chunks = << >>
  /\ \E k \in 1..Len(historial) :
        /\ es_json(historial[k].cuerpo)
        /\ json_loads(historial[k].cuerpo).coll = "cursos"
        /\ ConTexto(json_loads(historial[k].cuerpo))
        /\ historial[k].resultado = "no_procesable"
  /\ \E k \in 1..Len(historial) : historial[k].resultado = "exitoso"

C23_ChunksNumerados ==
  /\ \A k \in 1..Len(flujo.chunks) :
        /\ flujo.chunks[k].metadatos.indice_chunk = k - 1
        /\ flujo.chunks[k].metadatos.total_chunks = Len(flujo.chunks)
        /\ flujo.chunks[k].id = <<flujo.chunks[k].id_original, "chunk", k - 1>>
  /\ \A k \in 1..Len(flujo.trunks) :
        /\ flujo.trunks[k].indice = k - 1
        /\ flujo.trunks[k].id = <<flujo.trunks[k].texto_original_id, "trunk", k - 1>>
        /\ \/ /\ "total_chunks" \in DOMAIN flujo.trunks[k]
              /\ flujo.trunks[k].total_chunks = Len(flujo.trunks)
           \/ /\ "total_chunks" \in DOMAIN flujo.trunks[k].metadatos
              /\ flujo.trunks[k].metadatos.total_chunks = Len(flujo.trunks)

\* C28: once detener() of the flow has returned True the worker thread that
\* runs the flow is no longer running.
C28_HiloTerminadoTrasDetener ==
  flujo.retorno = "True" => flujo.hilo # "vivo"

\* the points stored for documents other than d are the same after the step,
\* and every point the step adds belongs to d
SoloToca(d) ==
  /\ \A p \in DOMAIN puntos :
        puntos[p].id_original # d => p \in DOMAIN puntos' /\ puntos'[p] = puntos[p]
  /\ \A p \in DOMAIN puntos' :
        p \notin DOMAIN puntos => puntos'[p].id_original = d

\* C24: processing one document, whether it fails (a stage raises, an
\* embedding comes back empty, a store call fails) or not, leaves the points
\* stored for every other document as they were, and the consumer takes the
\* message off the queue and goes on with the next one.
C24_FalloAislado ==
  [][/\ (Len(historial') > Len(historial) /\ es_json(Head(cola).cuerpo)) =>
          /\ SoloToca(json_loads(Head(cola).cuerpo).id)
          /\ cola' = Tail(cola)
     /\ flujo'.mensajes_procesados > flujo.mensajes_procesados =>
          /\ flujo'.chunks # << >>
          /\ SoloToca(flujo'.chunks[1].id_original)
          /\ flujo'.hilo = "vivo"]_vars

\* document 2 was stored, then the delivery of document 1 failed after its
\* clean text was written: the points of document 2 are still there
C24_Testigo ==
  /\ Len(historial) = 2
  /\ json_loads(historial[1].cuerpo).id = IdStr(2)
  /\ historial[1].resultado = "exitoso"
  /\ json_loads(historial[2].cuerpo).id = IdStr(1)
  /\ historial[2].resultado = "fallido"
  /\ \E p \in DOMAIN puntos : p[1] = COLECCION_TEXTOS /\ puntos[p].id_original = IdStr(1)
  /\ \E p \in DOMAIN puntos : p[1] = NombreColeccion(DocV2.id_curso)
                              /\ puntos[p].id_original = IdStr(2)

\* C21: crear_coleccion is a create-if-absent that is safe under concurrency:
\* every call for a name, from whichever caller, returns True, and no caller
\* of guardar_embedding loses its write because another one created the
\* collection first.
C21_CreacionConcurrente ==
  \A w \in 1..MaxTrabajadores : trabajadores[w].retorno # "False"

----------------------------------------------------------------------------
(* Claims about what the monitor captures *)

\* the collections the monitor was built for
Configuradas ==
  IF colecciones = << >> THEN Colecciones
  ELSE {colecciones[k] : k \in 1..Len(colecciones)}

\* the worker has nothing left to look at: its stream holds no further change,
\* or its snapshot is the content of the store
AlDia(h) ==
  \/ /\ hilos[h].modo = "nativo"
     /\ \A j \in (hilos[h].cursor + 1)..Len(flujo_cambios) : ~EnFlujoNativo(flujo_cambios[j])
  \/ /\ hilos[h].modo = "polling"
     /\ \A c \in Colecciones : ultimo_estado[c] = documentos_actuales(c)

\* C31: changes in every configured collection are captured, whichever mode is
\* active: once the worker of a monitor has nothing left to look at, every
\* document written to a configured collection while it was monitoring, and
\* still there, has had its insert handed to the publisher.
C31_TodaColeccionCapturada ==
  \A h \in 1..Len(hilos) :
     AlDia(h) =>
       \A c \in Configuradas : \A i \in DOMAIN almacen[c] : <<"insert", c, i>> \in emitidos

\* C32: every change event the monitor publishes carries a full document if
\* and only if its operation is not delete.
C32_DocumentoSalvoDelete ==
  \A k \in 1..Len(cola) :
     es_json(cola[k].cuerpo) =>
       (json_loads(cola[k].cuerpo).fullDocument # << >>
          <=> json_loads(cola[k].cuerpo).operationType # "delete")

----------------------------------------------------------------------------
(* Claims about the chunks of a text *)

\* C33: dividir_en_trunks applied to a text of 3000 characters with
\* tam_trunk = 1000 and solapamiento = 200 returns exactly 4 chunks, none
\* longer than 1000 plus the overlap, and the chunk stage of the flow tags
\* every chunk of a document of 3000 characters with total_chunks = 4.
C33_CuatroTrozos ==
  /\ (/\ Largo(ultimos_trunks.texto) = 3000
      /\ ultimos_trunks.tam_trunk = 1000
      /\ ultimos_trunks.solapamiento = 200)
       => /\ Len(ultimos_trunks.trunks) = 4
          /\ \A k \in 1..Len(ultimos_trunks.trunks) :
               ultimos_trunks.trunks[k] <= 1000 + 200
  /\ \A k \in 1..Len(flujo.chunks) : flujo.chunks[k].metadatos.total_chunks = 4

----------------------------------------------------------------------------
(* Claims about the workers of one monitor *)

\* the workers of the monitor that are inside a monitoring loop
EnBucle == {h \in 1..Len(hilos) : hilos[h].modo \in {"nativo", "polling"}}

\* a worker other than the newest one ends in this step
TerminaAnterior ==
  \E h \in 1..Len(hilos) :
     /\ h < hilo_monitor
     /\ hilos[h].modo # "terminado"
     /\ hilos'[h].modo = "terminado"

\* C34: under any sequence of iniciar() and detener() on one monitor, at most
\* one worker thread executes a monitoring loop at any time, and an older
\* worker that terminates never clears the ejecutando flag of a newer worker
\* that is alive.
C34_UnSoloHilo ==
  /\ [](Cardinality(EnBucle) <= 1)
  /\ [][(TerminaAnterior /\ hilo_vivo(hilo_monitor) /\ ejecutando) => ejecutando']_vars

\* the worker the monitor holds is alive and waiting on its change stream,
\* and nobody has asked the monitor to stop
NativoSaludable ==
  /\ hilo_monitor # 0
  /\ hilos[hilo_monitor].modo = "nativo"
  /\ ejecutando

\* C35: in native mode a healthy monitor, its worker alive and waiting on the
\* change feed, is reported as running by esta_ejecutando() also when no
\* change has arrived for more than 30 seconds, so ServicioCDC never restarts
\* a healthy monitor because the store is idle.
C35_NativoInactivoSaludable ==
  /\ [](NativoSaludable => esta_ejecutando)
  /\ [][(NativoSaludable /\ pc_servicio = "supervisando")
          => pc_servicio' # "reiniciando"]_vars

----------------------------------------------------------------------------
(* Claims about scans that fail *)

\* what C36 asks of a tick in which the scans of the collections failed as f says
TickSinDeleteFalso(f) ==
  /\ \A k \in 1..Len(ultimo_tick') :
        ultimo_tick'[k].operationType = "delete" =>
          /\ f[ultimo_tick'[k].coll] = -1
          /\ ultimo_tick'[k].id[2] \notin DOMAIN almacen[ultimo_tick'[k].coll]
  /\ \A c \in Colecciones :
        f[c] >= 0 => ultimo_estado'[c] = ultimo_estado[c]

\* C36: in polling mode a delete is emitted only for an id absent from a scan
\* that completed: when the scan of a collection fails part-way, the tick
\* emits no delete for that collection and leaves its snapshot as it was, so
\* the next tick compares against the old snapshot.
C36_DeleteSoloTrasEscaneoCompleto ==
  [][\A h \in 1..Len(hilos), f \in Fallas, b \in BOOLEAN :
       monitorear_por_polling(h, f, b) => TickSinDeleteFalso(f)]_vars

\* a scan has raised after reporting a new document while a document of the
\* snapshot was gone from the collection: no delete was emitted for it and it
\* is still in the snapshot
C36_Testigo ==
  \E c \in Colecciones \cap DOMAIN ultimo_estado, i \in Ids, j \in Ids :
     /\ i \in DOMAIN almacen[c] /\ i \notin DOMAIN ultimo_estado[c]
     /\ j \notin DOMAIN almacen[c] /\ j \in DOMAIN ultimo_estado[c]
     /\ \E k \in 1..Len(ultimo_tick) :
          /\ ultimo_tick[k].operationType = "insert"
          /\ ultimo_tick[k].coll = c
          /\ ultimo_tick[k].id = IdStr(i)
     /\ \A k \in 1..Len(ultimo_tick) :
          ultimo_tick[k].coll = c => ultimo_tick[k].operationType # "delete"

\* document i of coleccion c was written, changed or deleted after worker h
\* loaded its initial snapshot
CambiadoDesde(h, c, i) ==
  \E j \in (hilos[h].cursor + 1)..Len(flujo_cambios) :
     flujo_cambios[j].coll = c /\ flujo_cambios[j].id[2] = i

\* C37: the documents that exist in a watched collection when polling starts
\* are never reported as insert: a polling worker reports an insert only for
\* a document written after its initial snapshot was taken, also when loading
\* the initial snapshot of a collection failed.
C37_ExistentesNoSonInsert ==
  \A h \in 1..Len(hilos) :
     hilos[h].modo = "polling" =>
       \A c \in Colecciones : \A i \in Ids :
          <<"insert", c, i>> \in emitidos => CambiadoDesde(h, c, i)

----------------------------------------------------------------------------
(* Claims about the cache of collections and the payload *)

\* guardar_embedding is called for a collection whose name is in the cache
EscribeEnCache ==
  /\ ultima_llamada'.operacion = "guardar_embedding"
  /\ ultima_llamada'.conectado
  /\ ultima_llamada'.nombre \in colecciones_existentes
  /\ ultima_llamada' # ultima_llamada \/ puntos' # puntos

\* C38: every name in the connector's cache colecciones_existentes names a
\* collection that exists at the vector store, across crear_coleccion,
\* eliminar_coleccion, reconnects and deletions by other clients, so a write
\* to a cached name is never attempted against a missing collection.
C38_CacheSoloExistentes ==
  /\ [](colecciones_existentes \subseteq DOMAIN colecciones_qdrant)
  /\ [][EscribeEnCache => ultima_llamada'.nombre \in DOMAIN colecciones_qdrant]_vars

\* C39: after guardar_embedding(id_embedding, ...) succeeds, the stored
\* payload's id_original is the id_embedding passed, no key of the caller's
\* metadatos having overwritten it, so buscar_por_id_original(coleccion,
\* id_embedding) finds the point. The points of a course collection are
\* those guardar_embedding stored, under the id derived from id_embedding.
C39_PayloadReservado ==
  \A p \in DOMAIN puntos :
     p[1] # COLECCION_TEXTOS =>
       /\ puntos[p].id_original = p[2][2]
       /\ p \in buscar_por_id_original(qdrant, p[1], p[2][2])

\* C40: for every course id, the collection into which the pipelines write
\* the chunks of that course is the collection asegurar_coleccion_curso
\* creates and returns for the course, with a course-name slug or without.
C40_MismaColeccion ==
  (ultima_llamada.operacion = "asegurar_coleccion_curso" /\ ultima_llamada.exito) =>
    /\ \A k \in 1..Len(flujo.salida) :
          flujo.salida[k].metadatos.id_curso = ultima_llamada.nombre[2] =>
            flujo.salida[k].coleccion = ultima_llamada.nombre
    /\ \A p \in DOMAIN puntos :
          (p[1] # COLECCION_TEXTOS /\ puntos[p].id_curso = ultima_llamada.nombre[2]) =>
            p[1] = ultima_llamada.nombre

====
